---- MODULE Spec2Model ----
(***************************************************************************)
(* Checkpointed batch scheduler of MinimaxService                          *)
(* (services/minimax_service_backup.py): generate_images and               *)
(* create_videos_with_prompts driving one session id through the image     *)
(* stage and the video stage, with item failures, process crashes and      *)
(* resumes from the checkpoint file.                                       *)
(***************************************************************************)
EXTENDS Integers, Sequences, FiniteSets, TLC

\* ------------------------------------------------------------------ bounds
MaxN == 5        \* largest number of prompts / images of a session
MaxRuns == 3     \* scheduler calls made on the session

\* ------------------------------------------------------- program constants
ImageBatchSize == 4
VideoBatchSize == 2

VARIABLES
    N,              \* len(prompts) == len(image_paths): the inputs of the session
    disk,           \* content of checkpoint_<session_id>.json
    pc,             \* position of the scheduler call: idle, gather, commit, raised, returned
    stage,          \* "image" (generate_images) or "video" (create_videos_with_prompts)
    checkpoint,     \* the local dict `checkpoint`
    completed,      \* the local list completed_images / completed_videos
    results,        \* the local list generated_images / video_paths
    start_index,    \* local start_index
    batch_start,    \* loop variable batch_start
    tasks,          \* the coroutines handed to asyncio.gather for the current batch
    doneOrder,      \* enumerate positions of the batch, in order of completion
    batch_results,  \* local batch_results
    ci,             \* position of the commit loop inside batch_results
    err,            \* 1-based position named by the raised RuntimeError, 0 when none
    ret,            \* the list the call returned
    orphans,        \* item coroutines still running after their gather raised
    runs,           \* number of scheduler calls made so far
    imagesReturned, \* generate_images has returned its list to the caller
    k0,             \* history: indices committed on disk when the call started
    submitted,      \* history: items handed to the remote API by the current call
    resolved,       \* history: items of the current call whose coroutine ended
    failed,         \* history: the item whose coroutine raised first, -1 when none
    worked          \* history: the current call went through its batch loop

schedulerVars == <<N, disk, pc, stage, checkpoint, completed, results, start_index,
                   batch_start, tasks, doneOrder, batch_results, ci, err, ret, orphans,
                   runs, imagesReturned, k0, submitted, resolved, failed, worked>>

\* ------------------------------------------------------------ pure helpers
Min(a, b) == IF a < b THEN a ELSE b

\* prompts / image_paths: the item at list position i (0-based) is item i
Items(n) == [i \in 1..n |-> i - 1]

\* slice l[a:b] of Python, 0-based, end exclusive, clamped like Python does
Slice(l, a, b) == SubSeq(l, a + 1, Min(b, Len(l)))

Range(s) == {s[i] : i \in 1..Len(s)}

BatchSize(st) == IF st = "image" THEN ImageBatchSize ELSE VideoBatchSize

\* the record _load_checkpoint returns when there is no file: {}
EmptyCheckpoint ==
    [exists |-> FALSE, phase |-> "none", total_prompts |-> -1, total_images |-> -1,
     completed_images |-> <<>>, generated_images |-> <<>>,
     completed_videos |-> <<>>, video_paths |-> <<>>,
     last_completed_index |-> -1, completed |-> FALSE, failed_at |-> -1]

LoadCheckpoint(d) == IF d.exists THEN d ELSE EmptyCheckpoint

NewImageCheckpoint(n) ==
    [EmptyCheckpoint EXCEPT !.exists = TRUE, !.phase = "image_generation",
                            !.total_prompts = n]

NewVideoCheckpoint(n) ==
    [EmptyCheckpoint EXCEPT !.exists = TRUE, !.phase = "video_generation",
                            !.total_images = n]

EnterVideoPhase(ck) == [ck EXCEPT !.phase = "video_generation"]

CompletedOf(st, ck) == IF st = "image" THEN ck.completed_images ELSE ck.completed_videos
ResultsOf(st, ck) == IF st = "image" THEN ck.generated_images ELSE ck.video_paths

StartIndex_Zero(done) == 0
StartIndex(done) == Len(done)

\* remaining_prompts / remaining_images
Remaining(n, si) == Slice(Items(n), si, n)

BatchEnd_WholeRest(st, n, si, bs) == Len(Remaining(n, si))
BatchEnd(st, n, si, bs) == Min(bs + BatchSize(st), Len(Remaining(n, si)))

\* tasks = [generate_single_image(i, prompt) for i, prompt in enumerate(batch_prompts)]
SpawnBatch(st, n, si, bs) ==
    LET batch == Slice(Remaining(n, si), bs, BatchEnd(st, n, si, bs))
    IN  [i \in 1..Len(batch) |-> [index |-> i - 1, item |-> batch[i], st |-> "running"]]

\* real_index = actual_start + index
RealIndex(actual_start, index) == actual_start + index

\* the artifact of a coroutine: image_<real_index> / video_<real_index> of the
\* session directory, rendered from the prompt / image the coroutine was given
ArtifactPath(st, actual_start, t) ==
    [kind |-> st, idx |-> RealIndex(actual_start, t.index), item |-> t.item]

NoPath == [kind |-> "error", idx |-> -1, item |-> -1]

\* what the coroutine hands to gather: the path (image), (real_index, path) (video)
TaskResult(st, actual_start, t) ==
    LET p == IF t.st = "ok" THEN ArtifactPath(st, actual_start, t) ELSE NoPath
    IN  IF st = "image" THEN p
        ELSE [real_index |-> RealIndex(actual_start, t.index), video_path |-> p]

\* f"Error generating image {real_index+1}: ..." / f"Error creating video {real_index+1}: ..."
ErrorItem_ZeroBased(actual_start, index) == RealIndex(actual_start, index)
ErrorItem(actual_start, index) == RealIndex(actual_start, index) + 1

\* asyncio.gather(*tasks) without return_exceptions: raises with the first
\* exception, returns once every coroutine has returned
GatherOutcome_ReturnExceptions(ts) ==
    IF \A i \in 1..Len(ts) : ts[i].st # "running" THEN "return" ELSE "pending"
GatherOutcome_FirstCompleted(ts) ==
    IF \E i \in 1..Len(ts) : ts[i].st = "fail" THEN "raise"
    ELSE IF \E i \in 1..Len(ts) : ts[i].st = "ok" THEN "return" ELSE "pending"
GatherOutcome(ts) ==
    IF \E i \in 1..Len(ts) : ts[i].st = "fail" THEN "raise"
    ELSE IF \A i \in 1..Len(ts) : ts[i].st = "ok" THEN "return" ELSE "pending"

\* the list gather returns: one result per coroutine, in the order of `tasks`
GatherResults_CompletionOrder(st, actual_start, ts, order) ==
    [i \in 1..Len(ts) |->
        IF i <= Len(order) THEN TaskResult(st, actual_start, ts[order[i] + 1])
        ELSE TaskResult(st, actual_start, ts[i])]
GatherResults(st, actual_start, ts, order) ==
    [i \in 1..Len(ts) |-> TaskResult(st, actual_start, ts[i])]

\* one round of the commit loop: the index and the path that are appended
CommittedIndex(st, actual_start, i, result) ==
    IF st = "image" THEN RealIndex(actual_start, i) ELSE result.real_index
CommittedPath(st, result) ==
    IF st = "image" THEN result ELSE result.video_path

\* checkpoint[...] = ... of the commit loop
CommitItem_NoIndex(st, ck, done, res, real_index) ==
    IF st = "image"
    THEN [ck EXCEPT !.generated_images = res, !.last_completed_index = real_index]
    ELSE [ck EXCEPT !.video_paths = res, !.last_completed_index = real_index]
CommitItem(st, ck, done, res, real_index) ==
    IF st = "image"
    THEN [ck EXCEPT !.completed_images = done, !.generated_images = res,
                    !.last_completed_index = real_index]
    ELSE [ck EXCEPT !.completed_videos = done, !.video_paths = res,
                    !.last_completed_index = real_index]

\* self._save_checkpoint(session_id, checkpoint) as the last statement of every
\* round of the commit loop: what the file holds after round `round` of `n`
SavedByCommit_OncePerBatch(old, ck, round, n) == IF round = n THEN ck ELSE old
SavedByCommit(old, ck, round, n) == ck

\* checkpoint['completed'] = True
FinalCheckpoint_NoMark(ck) == ck
FinalCheckpoint(ck) == [ck EXCEPT !.completed = TRUE]

\* ======================================================= checkpoint store
\* _save_checkpoint / _load_checkpoint / _clear_checkpoint / list_checkpoints /
\* clear_all_checkpoints over the files of downloads/checkpoints

\* ------------------------------------------------------------------ bounds
MaxSessions == 2     \* session ids with a file in the checkpoint directory
MaxClock == 2        \* largest value of time.time()
StoreItems == 2      \* items of a stored session

VARIABLES
    files,          \* checkpoint_<session_id>.json of every session id
    now,            \* time.time()
    saving,         \* the _save_checkpoint call between open(path, 'w') and the end of json.dump
    lastSaved,      \* history: the dict handed to the last save that ended, per session id
    reply           \* the last store operation and what it returned

storeVars == <<files, now, saving, lastSaved, reply>>

Sessions == 1..MaxSessions

\* Python values of a checkpoint dict, with their type
PyNone == [t |-> "none", v |-> 0]
PyInt(n) == [t |-> "int", v |-> n]
PyFloat(x) == [t |-> "float", v |-> x]
PyStr(x) == [t |-> "str", v |-> x]
PyBool(b) == [t |-> "bool", v |-> b]
PyList(l) == [t |-> "list", v |-> l]
PyDict(d) == [t |-> "dict", v |-> d]

EmptyDict == <<>>

\* d.get(k, default)
Get(d, k, default) == IF k \in DOMAIN d THEN d[k] ELSE default

Indices(m) == [i \in 1..m |-> i - 1]

\* json.dump of one value: lists and tuples are written as arrays, None as null
JsonEncodeValue(x) ==
    CASE x.t \in {"list", "tuple"} -> [t |-> "array", v |-> x.v]
      [] x.t = "none" -> [t |-> "null", v |-> x.v]
      [] x.t = "int" -> [t |-> "integer", v |-> x.v]
      [] x.t = "float" -> [t |-> "real", v |-> x.v]
      [] x.t = "str" -> [t |-> "string", v |-> x.v]
      [] x.t = "bool" -> [t |-> "boolean", v |-> x.v]
      [] OTHER -> [t |-> "object", v |-> x.v]

\* json.load of one value: an array is read back as a list
JsonDecodeValue(j) ==
    CASE j.t = "array" -> [t |-> "list", v |-> j.v]
      [] j.t = "null" -> [t |-> "none", v |-> j.v]
      [] j.t = "integer" -> [t |-> "int", v |-> j.v]
      [] j.t = "real" -> [t |-> "float", v |-> j.v]
      [] j.t = "string" -> [t |-> "str", v |-> j.v]
      [] j.t = "boolean" -> [t |-> "bool", v |-> j.v]
      [] OTHER -> [t |-> "dict", v |-> j.v]

\* json.dump(checkpoint_data, f, indent=2, ensure_ascii=False)
JsonDump_NoFailedAt(d) == [k \in (DOMAIN d) \ {"failed_at"} |-> JsonEncodeValue(d[k])]
JsonDump(d) == [k \in DOMAIN d |-> JsonEncodeValue(d[k])]

\* json.load(f)
JsonLoad(text) == [k \in DOMAIN text |-> JsonDecodeValue(text[k])]

AbsentFile == [st |-> "absent", text |-> <<>>]
\* the file after open(path, 'w') and before json.dump has written it all
TruncatedFile == [st |-> "corrupt", text |-> <<>>]
WrittenFile(d) == [st |-> "ok", text |-> JsonDump(d)]

LoadError == [error |-> PyStr("JSONDecodeError")]

\* _load_checkpoint: {} when the file is missing or cannot be parsed
LoadCheckpointFile_NoTry(file) ==
    IF file.st = "ok" THEN JsonLoad(file.text)
    ELSE IF file.st = "absent" THEN EmptyDict ELSE LoadError
LoadCheckpointFile(file) ==
    IF file.st = "ok" THEN JsonLoad(file.text) ELSE EmptyDict

\* checkpoint['failed_at'] = {'index': ..., 'error': ..., 'timestamp': ...}
FailedAt(i, ts) == PyDict([index |-> i, error |-> "e", timestamp |-> ts])

\* the dict a scheduler call that started at t0 holds after committing m
\* images of session s
CheckpointDict(s, t0, m, ts, fa, comp) ==
    [session_id |-> PyStr(s), total_prompts |-> PyInt(StoreItems),
     prompts |-> PyList([i \in 1..StoreItems |-> "prompt"]),
     completed_images |-> PyList(Indices(m)),
     generated_images |-> PyList(Indices(m)),
     start_time |-> PyFloat(t0),
     phase |-> PyStr("image_generation"),
     session_image_dir |-> PyStr(<<"minimax_images", s>>),
     session_video_dir |-> PyStr(<<"videos", s>>)]
    @@ (IF m > 0 THEN [last_completed_index |-> PyInt(m - 1), last_update |-> PyFloat(ts)]
        ELSE EmptyDict)
    @@ (IF fa THEN [failed_at |-> FailedAt(m, ts)] ELSE EmptyDict)
    @@ (IF comp THEN [completed |-> PyBool(TRUE)] ELSE EmptyDict)

\* the dict generate_images builds for a session without checkpoint
FreshDict(s, t0) == CheckpointDict(s, t0, 0, t0, FALSE, FALSE)

\* the dict create_videos_with_prompts builds for a session without checkpoint
NewVideoDict(s, t0) ==
    [session_id |-> PyStr(s), total_images |-> PyInt(StoreItems),
     images |-> PyList(Indices(StoreItems)),
     prompts |-> PyList([i \in 1..StoreItems |-> "motion"]),
     completed_videos |-> PyList(<<>>),
     video_paths |-> PyList(<<>>),
     start_time |-> PyFloat(t0),
     phase |-> PyStr("video_generation"),
     session_image_dir |-> PyStr(<<"minimax_images", s>>),
     session_video_dir |-> PyStr(<<"videos", s>>)]

\* the dict create_videos_with_prompts saves before its first batch: a new
\* one, or the loaded one with phase, images, prompts and video_start_time set
VideoStageDict_AlwaysNew(loaded, s, t0) == NewVideoDict(s, t0)
VideoStageDict(loaded, s, t0) ==
    IF "session_id" \notin DOMAIN loaded
    THEN NewVideoDict(s, t0)
    ELSE [phase |-> PyStr("video_generation"),
          images |-> PyList(Indices(StoreItems)),
          prompts |-> PyList([i \in 1..StoreItems |-> "motion"]),
          video_start_time |-> PyFloat(t0)] @@ loaded

\* f"checkpoint_{session_id}.json" and the id list_checkpoints reads out of it
CheckpointFileName(s) == <<"checkpoint_", s, ".json">>
SessionIdOf(filename) == filename[2]

\* _clear_checkpoint
ClearCheckpoint_All(fs, s) == [x \in DOMAIN fs |-> AbsentFile]
ClearCheckpoint(fs, s) == [fs EXCEPT ![s] = AbsentFile]

\* checkpoint_info of list_checkpoints
CheckpointInfo(filename, data) ==
    [session_id |-> SessionIdOf(filename),
     phase |-> Get(data, "phase", PyStr("unknown")),
     completed |-> Get(data, "completed", PyBool(FALSE)),
     completed_images |-> Len(Get(data, "completed_images", PyList(<<>>)).v),
     last_update |-> Get(data, "last_update", PyNone),
     failed_at |-> Get(data, "failed_at", PyNone)]

\* the files list_checkpoints can parse
Readable(fs) == {s \in DOMAIN fs : fs[s].st = "ok"}

\* key=lambda x: x.get('last_update', 0)
SortKey(x) == Get(x, "last_update", PyInt(0))

\* list.sort raises TypeError as soon as it compares None with anything
SortRaises(l) == Len(l) >= 2 /\ \E i \in 1..Len(l) : SortKey(l[i]).t = "none"

\* list_checkpoints: os.listdir gives the files in any order; the sorted list
\* when sort succeeds, the list in whatever order sort left it when it raised
ListCheckpoints(fs) ==
    LET S == Readable(fs)
        orders == {o \in [1..Cardinality(S) -> S] :
                      \A i, j \in 1..Cardinality(S) : i # j => o[i] # o[j]}
        infos(o) == [i \in 1..Cardinality(S) |->
                        CheckpointInfo(CheckpointFileName(o[i]),
                                       LoadCheckpointFile(fs[o[i]]))]
    IN  {infos(o) : o \in {p \in orders :
            SortRaises(infos(p)) \/
            \A i, j \in 1..Cardinality(S) :
                i < j => SortKey(infos(p)[i]).v >= SortKey(infos(p)[j]).v}}

\* clear_all_checkpoints: _clear_checkpoint for every listed session id
RECURSIVE ClearEach(_, _)
ClearEach(fs, ids) ==
    IF ids = {} THEN fs
    ELSE LET s == CHOOSE x \in ids : TRUE
         IN  ClearEach(ClearCheckpoint(fs, s), ids \ {s})

ClearAllCheckpoints(fs) ==
    ClearEach(fs, {SessionIdOf(CheckpointFileName(s)) : s \in Readable(fs)})

NoSave == [sid |-> 0, data |-> EmptyDict, old |-> AbsentFile]

NoOut == [op |-> "none", sid |-> 0, data |-> EmptyDict, old |-> AbsentFile,
          listed |-> <<>>, idx |-> 0]

StoreInit ==
    /\ files = [s \in Sessions |-> AbsentFile]
    /\ now = 1
    /\ saving = NoSave
    /\ lastSaved = [s \in Sessions |-> EmptyDict]
    /\ reply = NoOut

\* ================================================================ polling
\* _wait_for_video_task, _wait_for_image_task (minimax_service_backup.py) and
\* _poll_task_status (minimax_service.py)

VideoMaxAttempts == 1200   \* max_attempts of _wait_for_video_task
ImageMaxAttempts == 120    \* max_attempts of _wait_for_image_task
MaxWaitTime == 900         \* max_wait_time the callers of _poll_task_status pass
PollSleep == 10            \* asyncio.sleep(10) of _poll_task_status

VARIABLES
    pfn,            \* the poll function that runs: "video", "image" or "status"
    attempt,        \* attempt of the two counting polls
    elapsed,        \* time.time() - start_time of _poll_task_status
    queries,        \* history: status queries the poll has sent
    pollPc,         \* "idle", "polling", "done"
    pollResult,     \* how the poll ended: what it returned or raised
    itemResult,     \* what the item call around the poll returned
    cause,          \* history: why the poll ended
    lastAnswer,     \* history: the answer to the last status query
    sawError,       \* history: a query of this poll met a network error or a non-200 answer
    termSeen,       \* history: terminal status a query of this poll has reported
    afterTerminal   \* history: a query was sent after a terminal status was reported

pollVars == <<pfn, attempt, elapsed, queries, pollPc, pollResult, itemResult, cause,
              lastAnswer, sawError, termSeen, afterTerminal>>

PollFunctions == {"video", "image", "status"}

\* status values the service may report
Statuses == {"processing", "Processing", "success", "Success",
             "failed", "Failed", "Fail", "unknown"}

\* answers to one status query: an exception of the HTTP client (http = 0), a
\* non-200 answer, a 200 answer whose base_resp.status_code is not 0, and 200
\* answers that carry a status in one place, with or without the artifact
NetworkError == [http |-> 0, base |-> 0, where |-> "none", status |-> "", payload |-> FALSE]
Http500 == [http |-> 500, base |-> 0, where |-> "none", status |-> "", payload |-> FALSE]
BaseRespError == [http |-> 200, base |-> 1004, where |-> "none", status |-> "", payload |-> FALSE]
NoStatus == [http |-> 200, base |-> 0, where |-> "none", status |-> "", payload |-> FALSE]
NoAnswer == [http |-> -1, base |-> 0, where |-> "none", status |-> "", payload |-> FALSE]

Answers ==
    {NetworkError, Http500, BaseRespError, NoStatus} \cup
    {[http |-> 200, base |-> 0, where |-> w, status |-> st, payload |-> p] :
        w \in {"status", "data.status", "task_status"}, st \in Statuses, p \in BOOLEAN}

\* the status lists of the three polls
SuccessStatuses(fn) ==
    IF fn = "video"
    THEN {"finished", "success", "completed", "done",
          "FINISHED", "SUCCESS", "COMPLETED", "Success"}
    ELSE IF fn = "image"
    THEN {"finished", "completed", "success",
          "FINISHED", "COMPLETED", "SUCCESS", "Success"}
    ELSE {"Success"}

FailedStatuses(fn) ==
    IF fn = "video" THEN {"failed", "error", "FAILED", "ERROR", "Fail"}
    ELSE IF fn = "image" THEN {"failed", "error", "FAILED", "ERROR"}
    ELSE {"Failed"}

\* where each poll looks for the status of a 200 answer
StatusOf(fn, a) ==
    IF fn = "video" THEN a.status
    ELSE IF fn = "image" THEN (IF a.where = "data.status" THEN a.status ELSE "")
    ELSE (IF a.where = "status" THEN a.status ELSE "")

\* does the poll read the answer's body
Parsed(fn, a) == a.http = 200

Returned(v) == [kind |-> "return", value |-> v, exc |-> "", msg |-> ""]
Raised(e, m) == [kind |-> "raise", value |-> "", exc |-> e, msg |-> m]
KeepPolling == [kind |-> "continue", value |-> "", exc |-> "", msg |-> ""]
NoOutcome == [kind |-> "none", value |-> "", exc |-> "", msg |-> ""]

\* the failed branch of each poll
OnFailed_KeepPolling(fn) == KeepPolling
OnFailed(fn) ==
    IF fn = "video" THEN Raised("RuntimeError", "Video generation failed")
    ELSE IF fn = "image" THEN Raised("RuntimeError", "Image generation failed")
    ELSE Returned("None")

\* the success branch of each poll
OnSuccess(fn, a) ==
    IF fn = "video"
    THEN IF a.payload THEN Returned("file_id")
         ELSE Raised("RuntimeError", "Video generated but no file_id or URL found in response")
    ELSE IF fn = "image"
    THEN IF a.payload THEN Returned("saved_paths") ELSE KeepPolling
    ELSE Returned("result")

\* except Exception / the else of response.status == 200
OnError_Abort(fn) == Raised("ClientError", "")
OnError(fn) == KeepPolling

\* the end of the loop without return or raise
OnTimeout(fn) ==
    IF fn = "video" THEN Raised("RuntimeError", "Video generation timeout")
    ELSE IF fn = "image" THEN Raised("RuntimeError", "Image generation timeout")
    ELSE Returned("None")

\* one turn of the loop body on answer a
OneQuery(fn, a) ==
    IF ~Parsed(fn, a) THEN OnError(fn)
    ELSE IF fn # "status" /\ a.base # 0 THEN Raised("RuntimeError", "Query error")
    ELSE IF StatusOf(fn, a) \in SuccessStatuses(fn) THEN OnSuccess(fn, a)
    ELSE IF StatusOf(fn, a) \in FailedStatuses(fn) THEN OnFailed(fn)
    ELSE KeepPolling

\* the terminal status the answer reports to this poll, "none" when it reports none
TerminalStatus(fn, a) ==
    IF ~Parsed(fn, a) \/ (fn # "status" /\ a.base # 0) THEN "none"
    ELSE IF StatusOf(fn, a) \in SuccessStatuses(fn) THEN "success"
    ELSE IF StatusOf(fn, a) \in FailedStatuses(fn) THEN "failed"
    ELSE "none"

\* the loop condition
LoopRuns(fn, att, el) ==
    IF fn = "video" THEN att < VideoMaxAttempts
    ELSE IF fn = "image" THEN att < ImageMaxAttempts
    ELSE el < MaxWaitTime

\* what the item call around the poll hands to its caller: _create_single_video
\* returns "" for every exception, generate_video_from_image returns None
\* unless the poll returned a result; _wait_for_image_task has no caller
ItemCall(fn, o) ==
    IF fn = "video" THEN (IF o.kind = "return" THEN Returned("video_path") ELSE Returned(""))
    ELSE IF fn = "status" THEN (IF o.kind = "return" /\ o.value = "result"
                                THEN Returned("video_path") ELSE Returned("None"))
    ELSE o

PollInit ==
    /\ pfn = "video"
    /\ attempt = 0
    /\ elapsed = 0
    /\ queries = 0
    /\ pollPc = "idle"
    /\ pollResult = NoOutcome
    /\ itemResult = NoOutcome
    /\ cause = "none"
    /\ lastAnswer = NoAnswer
    /\ sawError = FALSE
    /\ termSeen = "none"
    /\ afterTerminal = FALSE

\* ============================================================ media client
\* _get_file_url: the download URL in the answer of files/retrieve

MaxLeaves == 2       \* values an answer of files/retrieve carries

VARIABLES
    fileResponse,   \* the answer of files/retrieve
    fileUrl         \* what _get_file_url returned

fileVars == <<fileResponse, fileUrl>>

\* strings are sequences of characters
HttpPrefix == <<"h", "t", "t", "p">>
EmptyString == <<>>

\* str.startswith
StartsWith(str, prefix) ==
    Len(str) >= Len(prefix) /\ SubSeq(str, 1, Len(prefix)) = prefix

\* search_paths, in the order of the list
SearchPaths ==
    << <<"file", "download_url">>, <<"download_url">>, <<"url">>,
       <<"data", "download_url">>, <<"data", "url">>,
       <<"data", "file", "download_url">>, <<"data", "file", "url">>,
       <<"file", "url">>,
       <<"video", "download_url">>, <<"video", "url">>,
       <<"data", "video", "download_url">>, <<"data", "video", "url">>,
       <<"file_url">>, <<"data", "file_url">>,
       <<"files", "download_url">>, <<"files", "url">> >>

\* values of the parsed JSON document: strings and a number
LeafValues ==
    {[t |-> "str", v |-> <<"h", "t", "t", "p", "s", "A">>],
     [t |-> "str", v |-> <<"h", "t", "t", "p", "B">>],
     [t |-> "str", v |-> <<"f", "t", "p">>],
     [t |-> "int", v |-> <<>>]}

\* a parsed document is given by its leaves: key path |-> value; every proper
\* prefix of a leaf's path is a dict
LeafPaths == Range(SearchPaths) \cup {<<"file">>, <<"data">>}

IsPrefix(pre, path) == Len(pre) <= Len(path) /\ SubSeq(path, 1, Len(pre)) = pre

Documents ==
    UNION {[D -> LeafValues] :
              D \in {X \in SUBSET LeafPaths :
                        /\ Cardinality(X) <= MaxLeaves
                        /\ \A x, y \in X : x # y => ~IsPrefix(x, y)}}

\* answers of files/retrieve: an exception of the HTTP client, a non-200
\* status, a 200 body that is not JSON, a document with base_resp.status_code
FileResponses ==
    {[status |-> 0, json |-> FALSE, base |-> 0, doc |-> <<>>],
     [status |-> 404, json |-> FALSE, base |-> 0, doc |-> <<>>],
     [status |-> 500, json |-> TRUE, base |-> 0, doc |-> <<>>],
     [status |-> 200, json |-> FALSE, base |-> 0, doc |-> <<>>]} \cup
    {[status |-> st, json |-> TRUE, base |-> b, doc |-> d] :
        st \in {200, 500}, b \in {0, 1004}, d \in Documents}

KeyError == [t |-> "KeyError", v |-> <<>>]
TypeError == [t |-> "TypeError", v |-> <<>>]
DictValue == [t |-> "dict", v |-> <<>>]

\* for key in path: current = current[key], after the first i - 1 keys
RECURSIVE Walk(_, _, _)
Walk(doc, path, i) ==
    LET pre == SubSeq(path, 1, i)
    IN  IF pre \in DOMAIN doc
        THEN IF i = Len(path) THEN doc[pre] ELSE TypeError
        ELSE IF \E q \in DOMAIN doc : IsPrefix(pre, q)
        THEN IF i = Len(path) THEN DictValue ELSE Walk(doc, path, i + 1)
        ELSE KeyError

\* isinstance(current, str) and current.startswith("http")
IsDownloadUrl(current) == current.t = "str" /\ StartsWith(current.v, HttpPrefix)

\* the for loop over search_paths from index i on, url the value found so far
RECURSIVE SearchFrom_NoBreak(_, _, _)
SearchFrom_NoBreak(doc, i, url) ==
    IF i > Len(SearchPaths) THEN url
    ELSE LET current == Walk(doc, SearchPaths[i], 1)
         IN  IF IsDownloadUrl(current)
             THEN SearchFrom_NoBreak(doc, i + 1, current.v)
             ELSE SearchFrom_NoBreak(doc, i + 1, url)
RECURSIVE SearchFrom(_, _, _)
SearchFrom(doc, i, url) ==
    IF i > Len(SearchPaths) THEN url
    ELSE LET current == Walk(doc, SearchPaths[i], 1)
         IN  IF IsDownloadUrl(current) THEN current.v
             ELSE SearchFrom(doc, i + 1, url)

\* _get_file_url
GetFileUrl(resp) ==
    IF resp.status # 200 THEN EmptyString
    ELSE IF ~resp.json THEN EmptyString
    ELSE IF resp.base # 0 THEN EmptyString
    ELSE SearchFrom(resp.doc, 1, EmptyString)

NoFileResponse == [status |-> -1, json |-> FALSE, base |-> 0, doc |-> <<>>]
NotCalled == [called |-> FALSE, url |-> EmptyString]

FileIdle ==
    /\ fileResponse = NoFileResponse
    /\ fileUrl = NotCalled

\* ----------------------------------------------------------------- prompts
\* the prompt of the payload at every submission site

MaxPromptLen == 1600            \* longest prompt a caller passes

ImagePromptHead == 1000         \* prompt[:1000]
ImagePromptLimit == 1500        \* style_enhanced_prompt[:1500]
VideoPromptLimit == 200         \* video_prompt[:200]
RealisticKeywordsLen == 326     \* len(realistic_keywords)
AntiSplitKeywordsLen == 386     \* len(anti_split_keywords)
DefaultVideoPromptLen == 89     \* len of the default video_prompt

VARIABLES
    promptIn,       \* the prompt the caller passes
    firstSent,      \* history: the first submission made with it
    sent,           \* the last submission: site and payload["prompt"]
    round           \* submissions made, and what the second one was given

promptVars == <<promptIn, firstSent, sent, round>>

\* a prompt of n characters
PromptOf(n) == [i \in 1..n |-> IF i = n THEN "z" ELSE "p"]

RealisticKeywords == [i \in 1..RealisticKeywordsLen |-> "r"]
AntiSplitKeywords == [i \in 1..AntiSplitKeywordsLen |-> "s"]
DefaultVideoPrompt == [i \in 1..DefaultVideoPromptLen |-> "d"]

\* str[:n]
Truncate_FromSecond(str, n) == SubSeq(str, 2, Min(Len(str), n + 1))
Truncate(str, n) == SubSeq(str, 1, Min(Len(str), n))

\* the submission sites
ImageSites == {"_generate_single_image", "generate_images_from_prompts_and_reference"}
VideoSites == {"_create_single_video", "generate_video_with_image",
               "create_videos_with_optimized_prompts"}

\* payload["prompt"] / request_data["prompt"] of each site
PayloadPrompt(site, str) ==
    CASE site = "_generate_single_image" ->
            Truncate(Truncate(str, ImagePromptHead) \o RealisticKeywords \o AntiSplitKeywords,
                     ImagePromptLimit)
      [] site = "_create_single_video" ->
            Truncate(IF str # EmptyString THEN str ELSE DefaultVideoPrompt, VideoPromptLimit)
      [] OTHER -> str

NothingSent == [site |-> "none", prompt |-> EmptyString]

PromptIdle ==
    /\ promptIn = EmptyString
    /\ firstSent = NothingSent
    /\ sent = NothingSent
    /\ round = "none"

\* ------------------------------------------------------------ result lists
\* the stages that go through their items one by one and return a list:
\* create_videos_with_optimized_prompts (minimax_service_backup.py),
\* generate_videos_from_images_and_prompts, generate_images_from_prompts_and_reference
\* and generate_scene_images_with_regeneration (minimax_service.py)

MaxImages == 3       \* items a caller passes to a stage

VARIABLES
    listFn,         \* the stage that runs
    listN,          \* len(image_paths) / len(prompts)
    listPrompts,    \* len of the prompt list passed along with the images
    listPc,         \* "idle", "loop", "poll", "returned"
    listI,          \* items the running loop has gone through
    listTasks,      \* task_ids of generate_videos_from_images_and_prompts
    listAcc,        \* the list the stage is building
    listOutcomes,   \* history: how each item went
    listRet         \* the list the stage returned

listVars == <<listFn, listN, listPrompts, listPc, listI, listTasks, listAcc,
              listOutcomes, listRet>>

VideoListStages == {"create_videos_with_optimized_prompts",
                    "generate_videos_from_images_and_prompts"}
ImageListStages == {"generate_images_from_prompts_and_reference",
                    "generate_scene_images_with_regeneration"}

\* how an item can go: the artifact is stored, the submission fails (non-200,
\* no task_id, exception), the task gives no artifact, the download fails
ItemOutcomes == {"ok", "submit_failed", "no_artifact", "download_failed"}

\* the file an item's artifact is stored in: classic_video_{i+1}_{task_id}.mp4,
\* the file of the item's file_id, step_{i+1}_image.jpg, scene_{i+1:02d}_image.jpg
ArtifactOf(fn, i) == <<fn, i>>

\* the entries of the returned lists: a path, "" as placeholder, and the
\* image_info dict of the scene stage (filepath None when failed)
PathEntry(fn, i) == [number |-> 0, filepath |-> ArtifactOf(fn, i), status |-> ""]
EmptyEntry == [number |-> 0, filepath |-> EmptyString, status |-> ""]
ImageInfo(fn, i, ok) ==
    [number |-> i, filepath |-> IF ok THEN ArtifactOf(fn, i) ELSE EmptyString,
     status |-> IF ok THEN "success" ELSE "failed"]

\* what one turn of the loop over the items does to the list, item i (from 1)
AfterItem(fn, acc, i, o) ==
    CASE fn = "create_videos_with_optimized_prompts" ->
            Append(acc, IF o = "ok" THEN PathEntry(fn, i) ELSE EmptyEntry)
      [] fn = "generate_scene_images_with_regeneration" ->
            Append(acc, ImageInfo(fn, i, o = "ok"))
      [] OTHER -> IF o = "ok" THEN Append(acc, PathEntry(fn, i)) ELSE acc

ListIdle ==
    /\ listFn = "none"
    /\ listN = 0
    /\ listPrompts = 0
    /\ listPc = "idle"
    /\ listI = 0
    /\ listTasks = <<>>
    /\ listAcc = <<>>
    /\ listOutcomes = <<>>
    /\ listRet = <<>>

\* -------------------------------------------------------------- session ids
\* _create_session_id and the paths that carry the session id

VARIABLES
    wall,           \* datetime.now(): second and microsecond
    started         \* the runs started without session_id: when, and the id they got

sessionVars == <<wall, started>>

\* datetime.strftime("%Y%m%d_%H%M%S"): date and time down to the second
StrfTime(t) == <<"%Y%m%d_%H%M%S", t.sec>>

\* _create_session_id
CreateSessionId(t) == StrfTime(t)

\* os.path.join(session_image_dir, f"image_{index}.{ext}") and
\* os.path.join(session_video_dir, f"video_{index}.mp4")
SessionImagePath(sid, index) == <<"minimax_images", sid, "image_", index>>
SessionVideoPath(sid, index) == <<"videos", sid, "video_", index, ".mp4">>

SessionIdle ==
    /\ wall = [sec |-> 1, micro |-> 0]
    /\ started = <<>>

\* ---------------------------------------------------------------- downloads
\* _download_image / _download_video and the item and batch code that call them

MaxUrls == 2         \* download URLs the API returns for one image task

VARIABLES
    dlFn,           \* the item function that runs
    dlAnswers,      \* what the download of each URL of the item answers
    dlPc,           \* "idle", "downloading", "returned", "done"
    dlI,            \* URLs of the item handled so far
    dlSaved,        \* saved_paths / the video path, in URL order
    dlFilesWritten, \* the files written so far, with what they hold
    dlItem,         \* what _generate_single_image / _create_single_video returned
    dlRun,          \* "raised" or "saved" once the batch code has handled the item
    dlRecorded      \* what the checkpoint holds for the item

downloadVars ==
    <<dlFn, dlAnswers, dlPc, dlI, dlSaved, dlFilesWritten, dlItem, dlRun, dlRecorded>>

ItemFunctions == {"_generate_single_image", "_create_single_video"}

\* a GET either raises (timeout, connection error) or answers a status and a body
DownloadAnswers ==
    [raised : BOOLEAN, status : {200, 404}, body : {"empty", "bytes"}]

\* sub_index = f"{index}_{i}" if len(urls) > 1 else str(index)
SubIndex(index, i, n) == IF n > 1 THEN <<index, i>> ELSE <<index>>

\* where the download of URL i of the item saves its file
DownloadPath(fn, sid, index, i, n) ==
    IF fn = "_generate_single_image"
    THEN SessionImagePath(sid, SubIndex(index, i, n))
    ELSE SessionVideoPath(sid, index)

\* _download_image / _download_video: the path when the status is 200 (the
\* body is written as it came), "" when the status is not 200 or the GET raised
DownloadResult(answer, path) ==
    IF ~answer.raised /\ answer.status = 200 THEN path ELSE EmptyString

\* saved_paths if saved_paths else "" ; the video item returns its download's result
ItemResult(fn, saved) ==
    IF fn = "_generate_single_image"
    THEN saved
    ELSE IF saved = <<>> THEN EmptyString ELSE saved[1]

DownloadIdle ==
    /\ dlFn = "_create_single_video"
    /\ dlAnswers = <<>>
    /\ dlPc = "idle"
    /\ dlI = 0
    /\ dlSaved = <<>>
    /\ dlFilesWritten = {}
    /\ dlItem = EmptyString
    /\ dlRun = ""
    /\ dlRecorded = <<>>

\* ------------------------------------------------------------ scene workflow
\* the scene project of main.py: generate-images, regenerate-image,
\* generate-video-prompts, generate-videos

VARIABLES
    sceneCount,     \* len(project_data["scene_prompts"])
    sceneImages,    \* project_data["scene_images"]
    videoPrompts,   \* project_data["video_prompts"]
    handed          \* the lists given to generate_videos_from_images_and_prompts

sceneVars == <<sceneCount, sceneImages, videoPrompts, handed>>

SceneStatuses == {"success", "failed", "error"}

\* the image_info dict of scene n; filepath is None unless status is success
SceneInfo(n, status, take) ==
    [scene_number |-> n,
     filepath |-> IF status = "success" THEN <<"scene_", n, take>> ELSE EmptyString,
     status |-> status]

\* f"Scene {i+1}: {base_action}. ..." for position i (from 1) of scene_images
SceneVideoPrompt(i) == <<"Scene ", i, ": ">>

\* generate_video_prompts_from_scenes: a prompt per scene, "" for a scene
\* whose image failed
VideoPromptsFromScenes(images) ==
    [i \in 1..Len(images) |->
        IF images[i].status = "success" THEN SceneVideoPrompt(i) ELSE EmptyString]

\* successful_images of generate_scene_videos
SuccessfulImages(images) ==
    LET Ok(img) == img.status = "success" IN SelectSeq(images, Ok)

\* filtered_video_prompts: for every successful image, the prompt at
\* scene_number - 1 when there is one and it is not empty
FilteredVideoPrompts_KeepEmpty(images, prompts) ==
    LET ok == SuccessfulImages(images)
    IN  [p \in 1..Len(ok) |->
            IF ok[p].scene_number - 1 < Len(prompts)
            THEN prompts[ok[p].scene_number] ELSE EmptyString]
FilteredVideoPrompts(images, prompts) ==
    LET Has(img) == /\ img.status = "success"
                    /\ img.scene_number - 1 < Len(prompts)
                    /\ prompts[img.scene_number] # EmptyString
        kept == SelectSeq(images, Has)
    IN  [p \in 1..Len(kept) |-> prompts[kept[p].scene_number]]

NothingHanded == [called |-> FALSE, images |-> <<>>, prompts |-> <<>>]

SceneIdle ==
    /\ sceneCount = 1
    /\ sceneImages = <<>>
    /\ videoPrompts = <<>>
    /\ handed = NothingHanded

\* ------------------------------------------------------- 4-step workflow
\* execute_workflow_step (main.py) over execute_step_by_step, and
\* execute_complete_workflow of LifePromptsService

VARIABLES
    project,        \* the project dict of projects_store
    stepReply,      \* what the last execute-step request answered
    succeeded,      \* history: the steps that have answered success
    wfNumSteps,     \* num_steps of the execute_complete_workflow call
    wfResult,       \* the result dict of execute_complete_workflow
    wfPc,           \* "idle", "running", "returned"
    wfOutcomes      \* history: what the service call of each step gave

workflowVars == <<project, stepReply, succeeded, wfNumSteps, wfResult, wfPc, wfOutcomes>>

\* what a service call can give: it raises, or returns a list of n entries,
\* an index, a path (ok) or None
StepOutcomes == [raised : BOOLEAN, n : 0..MaxImages, idx : 0..MaxImages, ok : BOOLEAN]

PromptList(n) == [i \in 1..n |-> <<"prompt", i>>]
ImageList(n) == [i \in 1..n |-> <<"image", i>>]
\* generate_step_prompts_from_image_and_description: the prompts the model
\* wrote, or the num_steps fallback prompts when its answer cannot be used
StepPrompts(o, num_steps) == IF o.ok THEN PromptList(o.n) ELSE PromptList(num_steps)

VideoFile == <<"video">>
MotionPrompt == <<"motion">>
DefaultMotionPrompt == <<"Smooth cinematic movement bringing the scene to life">>

\* select_best_image_and_create_video_prompt: index, reason and video prompt;
\* it asks the model only for two images or more and falls back to index 0
SelectBest(images, o) ==
    IF Len(images) <= 1
    THEN [idx |-> 0, reason |-> "Only one image available",
          prompt |-> DefaultMotionPrompt, remote |-> FALSE]
    ELSE IF o.raised
    THEN [idx |-> 0, reason |-> "Error during selection",
          prompt |-> DefaultMotionPrompt, remote |-> TRUE]
    ELSE IF o.idx < Len(images)
    THEN [idx |-> o.idx, reason |-> "reason", prompt |-> MotionPrompt, remote |-> TRUE]
    ELSE [idx |-> 0, reason |-> "Invalid index", prompt |-> MotionPrompt, remote |-> TRUE]

\* the project as create makes it; None is written as -1 (index) and <<>> (path)
NewProject ==
    [num_steps |-> MaxImages,
     step_prompts |-> <<>>, generated_images |-> <<>>, selected_image_index |-> -1,
     video_prompt |-> EmptyString, final_video_path |-> EmptyString,
     status |-> "created"]

\* selected_image_index is not None and generated_images is not empty, but
\* the index is outside the list: the subscript of main.py raises IndexError
PreviousDataRaises(p) ==
    /\ p.selected_image_index # -1
    /\ p.generated_images # <<>>
    /\ p.selected_image_index >= Len(p.generated_images)

\* previous_data of execute_workflow_step: every key is always there
PreviousData(p) ==
    [step_prompts |-> p.step_prompts,
     generated_images |-> p.generated_images,
     selected_image_index |-> p.selected_image_index,
     selected_image_path |->
        IF p.selected_image_index # -1 /\ p.generated_images # <<>>
        THEN p.generated_images[p.selected_image_index + 1] ELSE EmptyString,
     video_prompt |-> p.video_prompt]

StepAnswer(status, step, remote, data) ==
    [status |-> status, step |-> step, remote |-> remote, data |-> data]

NoData == [list |-> <<>>, idx |-> -1, path |-> EmptyString, prompt |-> EmptyString]

\* the key a step looks for in previous_data before it runs
RequiredKeysPresent(step, prev) ==
    CASE step = 2 -> "step_prompts" \in DOMAIN prev
      [] step = 3 -> "generated_images" \in DOMAIN prev /\ "step_prompts" \in DOMAIN prev
      [] step = 4 -> "selected_image_path" \in DOMAIN prev /\ "video_prompt" \in DOMAIN prev
      [] OTHER -> TRUE

\* execute_step_by_step(image_path, description, step, previous_data)
ExecuteStepByStep(step, prev, o, num_steps) ==
    IF step \notin 1..4 THEN StepAnswer("error", step, FALSE, NoData)
    ELSE IF ~RequiredKeysPresent(step, prev) THEN StepAnswer("error", step, FALSE, NoData)
    ELSE CASE step = 1 ->
                IF o.raised THEN StepAnswer("error", step, TRUE, NoData)
                ELSE StepAnswer("success", step, TRUE,
                        [NoData EXCEPT !.list = StepPrompts(o, num_steps)])
           [] step = 2 ->
                LET remote == prev.step_prompts # <<>>
                IN  IF o.raised /\ remote THEN StepAnswer("error", step, TRUE, NoData)
                    ELSE StepAnswer("success", step, remote,
                            [NoData EXCEPT !.list = ImageList(Min(o.n, Len(prev.step_prompts)))])
           [] step = 3 ->
                LET images == prev.generated_images
                    best == SelectBest(images, o)
                IN  IF images = <<>> THEN StepAnswer("error", step, FALSE, NoData)
                    ELSE StepAnswer("success", step, best.remote,
                            [NoData EXCEPT !.idx = best.idx, !.path = images[best.idx + 1],
                                           !.prompt = best.prompt])
           [] step = 4 ->
                IF prev.selected_image_path = EmptyString
                THEN StepAnswer("error", step, FALSE, NoData)
                ELSE IF o.raised \/ ~o.ok THEN StepAnswer("error", step, TRUE, NoData)
                ELSE StepAnswer("success", step, TRUE, [NoData EXCEPT !.path = VideoFile])

\* the project after a step answered success
UpdateProject(p, step, data) ==
    CASE step = 1 -> [p EXCEPT !.step_prompts = data.list]
      [] step = 2 -> [p EXCEPT !.generated_images = data.list]
      [] step = 3 -> [p EXCEPT !.selected_image_index = data.idx, !.video_prompt = data.prompt]
      [] step = 4 -> [p EXCEPT !.final_video_path = data.path, !.status = "completed"]
      [] OTHER -> p

\* the result dict execute_complete_workflow starts with; None is written
\* "None" (error) and <<>> (final_video_path)
InitialResult ==
    [status |-> "processing", step |-> 1, step_prompts |-> <<>>,
     generated_images |-> <<>>, selected_image_index |-> 0, selection_reason |-> "",
     video_prompt |-> EmptyString, final_video_path |-> EmptyString, error |-> "None"]

\* what the service call of step k hands back to the workflow: the calls of
\* steps 1 and 2 return a list or raise, select_best_image_and_create_video_prompt
\* and generate_video_from_image_and_prompt catch everything they raise
StepValue(r, k, o, num_steps) ==
    LET none == [raised |-> FALSE, list |-> <<>>, idx |-> 0, reason |-> "",
                 prompt |-> EmptyString, path |-> EmptyString]
    IN  CASE k = 1 -> [none EXCEPT !.raised = o.raised,
                                   !.list = IF o.raised THEN <<>>
                                            ELSE StepPrompts(o, num_steps)]
          [] k = 2 -> [none EXCEPT !.raised = o.raised,
                                   !.list = IF o.raised THEN <<>>
                                            ELSE ImageList(Min(o.n, Len(r.step_prompts)))]
          [] k = 3 -> LET best == SelectBest(r.generated_images, o)
                      IN  [none EXCEPT !.idx = best.idx, !.reason = best.reason,
                                       !.prompt = best.prompt]
          [] OTHER -> [none EXCEPT !.path = IF ~o.raised /\ o.ok THEN VideoFile
                                            ELSE EmptyString]

\* step k ends in the except handler: the call raised, or the workflow
\* raises on an empty result (`if not step_prompts`, `if not generated_images`,
\* `if not final_video_path`)
StepRaises_OnlyExceptions(k, v) == v.raised
StepRaises(k, v) ==
    \/ v.raised
    \/ k \in {1, 2} /\ v.list = <<>>
    \/ k = 4 /\ v.path = EmptyString

\* the result dict after step k went through
AfterStep(r, k, v) ==
    CASE k = 1 -> [r EXCEPT !.step_prompts = v.list, !.step = 2]
      [] k = 2 -> [r EXCEPT !.generated_images = v.list, !.step = 3]
      [] k = 3 -> [r EXCEPT !.selected_image_index = v.idx, !.selection_reason = v.reason,
                            !.video_prompt = v.prompt, !.step = 4]
      [] OTHER -> [r EXCEPT !.final_video_path = v.path, !.status = "completed", !.step = 5]

\* the except handler of execute_complete_workflow
AfterException(r, k, v) ==
    [r EXCEPT !.status = "failed",
              !.error = IF v.raised THEN "exception of the call" ELSE "step failed"]

NoReply == [called |-> FALSE, before |-> {}, answer |-> StepAnswer("none", 0, FALSE, NoData)]

WorkflowIdle ==
    /\ project = NewProject
    /\ stepReply = NoReply
    /\ succeeded = {}
    /\ wfNumSteps = 1
    /\ wfResult = InitialResult
    /\ wfPc = "idle"
    /\ wfOutcomes = <<>>

clientVars == <<fileVars, promptVars, listVars, sessionVars, downloadVars, sceneVars, workflowVars>>

ClientIdle == FileIdle /\ PromptIdle /\ ListIdle /\ SessionIdle /\ DownloadIdle /\ SceneIdle /\ WorkflowIdle

\* ------------------------------------------------------------------- Init
SchedulerInit ==
    /\ N \in 1..MaxN
    /\ disk = EmptyCheckpoint
    /\ pc = "idle"
    /\ stage = "image"
    /\ checkpoint = EmptyCheckpoint
    /\ completed = <<>>
    /\ results = <<>>
    /\ start_index = 0
    /\ batch_start = 0
    /\ tasks = <<>>
    /\ doneOrder = <<>>
    /\ batch_results = <<>>
    /\ ci = 0
    /\ err = 0
    /\ ret = <<>>
    /\ orphans = {}
    /\ runs = 0
    /\ imagesReturned = FALSE
    /\ k0 = 0
    /\ submitted = {}
    /\ resolved = {}
    /\ failed = -1
    /\ worked = FALSE

vars == <<schedulerVars, storeVars, pollVars, clientVars>>

Init == SchedulerInit /\ StoreInit /\ PollInit /\ ClientIdle

\* ---------------------------------------------------------------- actions
\* generate_images / create_videos_with_prompts from its first line to the
\* first await of gather (or to the early return)
StartRun(st) ==
    LET loaded == LoadCheckpoint(disk)
        done   == CompletedOf(st, loaded)
        res    == ResultsOf(st, loaded)
        si     == StartIndex(done)
        ck     == IF ~loaded.exists
                  THEN (IF st = "image" THEN NewImageCheckpoint(N) ELSE NewVideoCheckpoint(N))
                  ELSE (IF st = "image" THEN loaded ELSE EnterVideoPhase(loaded))
        ts     == SpawnBatch(st, N, si, 0)
    IN  /\ pc \in {"idle", "raised", "returned"}
        /\ runs < MaxRuns
        /\ runs' = runs + 1
        /\ stage' = st
        /\ checkpoint' = ck
        /\ disk' = IF st = "image" /\ loaded.exists THEN disk ELSE ck
        /\ completed' = done
        /\ results' = res
        /\ start_index' = si
        /\ batch_start' = 0
        /\ batch_results' = <<>>
        /\ doneOrder' = <<>>
        /\ ci' = 0
        /\ err' = 0
        /\ failed' = -1
        /\ resolved' = {}
        /\ k0' = Len(CompletedOf(st, disk))
        /\ IF Remaining(N, si) = <<>>
           THEN /\ pc' = "returned"
                /\ ret' = res
                /\ tasks' = <<>>
                /\ submitted' = {}
                /\ worked' = FALSE
                /\ imagesReturned' = (imagesReturned \/ st = "image")
           ELSE /\ pc' = "gather"
                /\ ret' = <<>>
                /\ tasks' = ts
                /\ submitted' = {ts[i].item : i \in 1..Len(ts)}
                /\ worked' = TRUE
                /\ UNCHANGED imagesReturned
        /\ UNCHANGED <<N, orphans>>

GenerateImages == StartRun("image")

\* the video stage is fed with the image list the image stage returned, or is
\* run on a session id of its own
CreateVideos ==
    /\ imagesReturned \/ ~disk.exists
    /\ StartRun("video")

\* one coroutine of the batch ends: it returns its path or raises RuntimeError
TaskDone(i, outcome) ==
    LET actual_start == start_index + batch_start
        ts  == [tasks EXCEPT ![i].st = outcome]
        ord == Append(doneOrder, ts[i].index)
        out == GatherOutcome(ts)
    IN  /\ pc = "gather"
        /\ i \in 1..Len(tasks)
        /\ tasks[i].st = "running"
        /\ tasks' = ts
        /\ doneOrder' = ord
        /\ resolved' = resolved \cup {ts[i].item}
        /\ failed' = IF outcome = "fail" /\ failed = -1 THEN ts[i].item ELSE failed
        /\ IF out = "raise"
           THEN /\ pc' = "raised"
                /\ err' = ErrorItem(actual_start, ts[i].index)
                /\ orphans' = orphans \cup
                      {[kind |-> stage, item |-> ts[j].item] :
                          j \in {m \in 1..Len(ts) : ts[m].st = "running"}}
                /\ UNCHANGED <<batch_results, ci>>
           ELSE IF out = "return"
           THEN /\ pc' = "commit"
                /\ batch_results' = GatherResults(stage, actual_start, ts, ord)
                /\ ci' = 0
                /\ UNCHANGED <<err, orphans>>
           ELSE UNCHANGED <<pc, err, orphans, batch_results, ci>>
        /\ UNCHANGED <<N, disk, stage, checkpoint, completed, results, start_index,
                       batch_start, ret, runs, imagesReturned, k0, submitted, worked>>

TaskSucceeds == \E i \in 1..ImageBatchSize : TaskDone(i, "ok")
TaskFails == \E i \in 1..ImageBatchSize : TaskDone(i, "fail")

\* one round of `for i, result in enumerate(batch_results)`, save included
Commit ==
    LET actual_start == start_index + batch_start
        result     == batch_results[ci + 1]
        real_index == CommittedIndex(stage, actual_start, ci, result)
        res        == Append(results, CommittedPath(stage, result))
        done       == Append(completed, real_index)
        ck         == CommitItem(stage, checkpoint, done, res, real_index)
    IN  /\ pc = "commit"
        /\ ci < Len(batch_results)
        /\ results' = res
        /\ completed' = done
        /\ checkpoint' = ck
        /\ disk' = SavedByCommit(disk, ck, ci + 1, Len(batch_results))
        /\ ci' = ci + 1
        /\ UNCHANGED <<N, pc, stage, start_index, batch_start, tasks, doneOrder,
                       batch_results, err, ret, orphans, runs, imagesReturned, k0,
                       submitted, resolved, failed, worked>>

\* the batch is committed and more items remain: sleep, then the next gather
NextBatch ==
    LET bs == batch_start + BatchSize(stage)
        ts == SpawnBatch(stage, N, start_index, bs)
    IN  /\ pc = "commit"
        /\ ci = Len(batch_results)
        /\ bs < Len(Remaining(N, start_index))
        /\ batch_start' = bs
        /\ tasks' = ts
        /\ doneOrder' = <<>>
        /\ batch_results' = <<>>
        /\ ci' = 0
        /\ pc' = "gather"
        /\ submitted' = submitted \cup {ts[i].item : i \in 1..Len(ts)}
        /\ UNCHANGED <<N, disk, stage, checkpoint, completed, results, start_index,
                       err, ret, orphans, runs, imagesReturned, k0, resolved, failed,
                       worked>>

\* the last batch is committed: completion checkpoint, return the list
Finish ==
    LET ck == FinalCheckpoint(checkpoint)
    IN  /\ pc = "commit"
        /\ ci = Len(batch_results)
        /\ batch_start + BatchSize(stage) >= Len(Remaining(N, start_index))
        /\ checkpoint' = ck
        /\ disk' = ck
        /\ ret' = results
        /\ pc' = "returned"
        /\ imagesReturned' = (imagesReturned \/ stage = "image")
        /\ UNCHANGED <<N, stage, completed, results, start_index, batch_start, tasks,
                       doneOrder, batch_results, ci, err, orphans, runs, k0,
                       submitted, resolved, failed, worked>>

\* a coroutine left behind by a gather that raised runs to its end
OrphanEnds ==
    \E o \in orphans :
        /\ orphans' = orphans \ {o}
        /\ UNCHANGED <<N, disk, pc, stage, checkpoint, completed, results,
                       start_index, batch_start, tasks, doneOrder, batch_results, ci,
                       err, ret, runs, imagesReturned, k0, submitted, resolved,
                       failed, worked>>

\* the process dies in the middle of a call: only the checkpoint file survives
Crash ==
    /\ pc \in {"gather", "commit"}
    /\ pc' = "idle"
    /\ checkpoint' = EmptyCheckpoint
    /\ completed' = <<>>
    /\ results' = <<>>
    /\ tasks' = <<>>
    /\ doneOrder' = <<>>
    /\ batch_results' = <<>>
    /\ ci' = 0
    /\ orphans' = {}
    /\ UNCHANGED <<N, disk, stage, start_index, batch_start, err, ret, runs,
                   imagesReturned, k0, submitted, resolved, failed, worked>>

SchedulerNext ==
    \/ GenerateImages
    \/ CreateVideos
    \/ TaskSucceeds
    \/ TaskFails
    \/ Commit
    \/ NextBatch
    \/ Finish
    \/ OrphanEnds
    \/ Crash

Next == SchedulerNext /\ UNCHANGED <<storeVars, pollVars, clientVars>>

Spec == Init /\ [][Next]_vars

\* ---------------------------------------------------------- store actions
\* time.time() moves on
Tick ==
    /\ saving = NoSave
    /\ now < MaxClock
    /\ now' = now + 1
    /\ UNCHANGED <<files, saving, lastSaved, reply>>

\* _save_checkpoint up to open(path, 'w'): the file is truncated
OpenForWrite(s, d) ==
    /\ files' = [files EXCEPT ![s] = TruncatedFile]
    /\ saving' = [sid |-> s, data |-> d, old |-> files[s]]
    /\ lastSaved' = [lastSaved EXCEPT ![s] = EmptyDict]

\* total_start_time of the call that holds the dict of session s: the
\* start_time of the checkpoint it loaded, or the time it made a fresh one
StartTimeOf(s) == Get(LoadCheckpointFile(files[s]), "start_time", PyFloat(now)).v

\* a scheduler call saves the dict it holds: after an item, in the failure
\* handler, or with completed = True at the end of the run
SaveCheckpoint(s, m, fa, comp) ==
    /\ saving = NoSave
    /\ fa => m < StoreItems
    /\ comp => m = StoreItems
    /\ OpenForWrite(s, CheckpointDict(s, StartTimeOf(s), m, now, fa, comp))
    /\ reply' = [NoOut EXCEPT !.op = "save", !.sid = s, !.old = files[s]]
    /\ UNCHANGED now

\* json.dump has written the whole dict and the with block closes the file
SaveEnd ==
    /\ saving # NoSave
    /\ files' = [files EXCEPT ![saving.sid] = WrittenFile(saving.data)]
    /\ lastSaved' = [lastSaved EXCEPT ![saving.sid] = saving.data]
    /\ reply' = [NoOut EXCEPT !.op = "saved", !.sid = saving.sid,
                               !.data = saving.data, !.old = saving.old]
    /\ saving' = NoSave
    /\ UNCHANGED now

\* the process dies between open(path, 'w') and the end of json.dump
SaveCrash ==
    /\ saving # NoSave
    /\ reply' = [NoOut EXCEPT !.op = "crash", !.sid = saving.sid,
                               !.data = saving.data, !.old = saving.old]
    /\ saving' = NoSave
    /\ UNCHANGED <<files, now, lastSaved>>

\* _load_checkpoint(session_id)
Load(s) ==
    /\ saving = NoSave
    /\ reply' = [NoOut EXCEPT !.op = "load", !.sid = s,
                               !.data = LoadCheckpointFile(files[s]), !.old = files[s]]
    /\ UNCHANGED <<files, now, saving, lastSaved>>

\* generate_images(session_id = s) up to the first batch: load, resume
\* index, and for a session without checkpoint a fresh one that is saved
StartSession(s) ==
    LET loaded == LoadCheckpointFile(files[s])
        done == Get(loaded, "completed_images", PyList(<<>>)).v
    IN  /\ saving = NoSave
        /\ reply' = [NoOut EXCEPT !.op = "start", !.sid = s, !.data = loaded,
                                   !.old = files[s], !.idx = StartIndex(done)]
        /\ IF "session_id" \in DOMAIN loaded
           THEN UNCHANGED <<files, saving, lastSaved>>
           ELSE OpenForWrite(s, FreshDict(s, now))
        /\ UNCHANGED now

\* create_videos_with_prompts(session_id = s) up to the first batch: load,
\* resume index, new or updated checkpoint, which is saved
StartVideoStage(s) ==
    LET loaded == LoadCheckpointFile(files[s])
        done == Get(loaded, "completed_videos", PyList(<<>>)).v
    IN  /\ saving = NoSave
        /\ reply' = [NoOut EXCEPT !.op = "start_video", !.sid = s, !.data = loaded,
                                   !.old = files[s], !.idx = StartIndex(done)]
        /\ OpenForWrite(s, VideoStageDict(loaded, s, now))
        /\ UNCHANGED now

\* clear_checkpoint(session_id)
Clear(s) ==
    /\ saving = NoSave
    /\ files' = ClearCheckpoint(files, s)
    /\ lastSaved' = [x \in Sessions |->
                        IF files'[x].st = "absent" THEN EmptyDict ELSE lastSaved[x]]
    /\ reply' = [NoOut EXCEPT !.op = "clear", !.sid = s, !.old = files[s]]
    /\ UNCHANGED <<now, saving>>

\* clear_all_checkpoints()
ClearAll ==
    /\ saving = NoSave
    /\ files' = ClearAllCheckpoints(files)
    /\ lastSaved' = [x \in Sessions |->
                        IF files'[x].st = "absent" THEN EmptyDict ELSE lastSaved[x]]
    /\ reply' = [NoOut EXCEPT !.op = "clear_all"]
    /\ UNCHANGED <<now, saving>>

\* list_checkpoints()
List ==
    /\ saving = NoSave
    /\ \E l \in ListCheckpoints(files) :
          reply' = [NoOut EXCEPT !.op = "list", !.listed = l]
    /\ UNCHANGED <<files, now, saving, lastSaved>>

StoreInit1 == SchedulerInit /\ N = 1 /\ StoreInit /\ PollInit /\ ClientIdle

\* the session whose file the store specification works on
TheSession == CHOOSE s \in Sessions : \A x \in Sessions : s <= x

\* one session's file under every save, load, crash and clear
StoreNext ==
    /\ \/ Tick
       \/ \E m \in 0..StoreItems, fa, comp \in BOOLEAN :
             SaveCheckpoint(TheSession, m, fa, comp)
       \/ SaveEnd
       \/ SaveCrash
       \/ Load(TheSession)
       \/ StartSession(TheSession)
       \/ Clear(TheSession)
    /\ UNCHANGED <<schedulerVars, pollVars, clientVars>>

SpecStore == StoreInit1 /\ [][StoreNext]_vars

\* the checkpoint directory with the files of several sessions: runs start,
\* runs end with their final save, checkpoints are listed and cleared
DirectoryNext ==
    /\ \/ Tick
       \/ \E s \in Sessions : StartSession(s)
       \/ \E s \in Sessions : SaveCheckpoint(s, StoreItems, FALSE, TRUE)
       \/ SaveEnd
       \/ SaveCrash
       \/ \E s \in Sessions : Clear(s)
       \/ ClearAll
       \/ List
    /\ UNCHANGED <<schedulerVars, pollVars, clientVars>>

SpecDirectory == StoreInit1 /\ [][DirectoryNext]_vars

\* the phase the file of session s shows, image_generation when it shows none
PhaseOnFile(s) == Get(LoadCheckpointFile(files[s]), "phase", PyStr("image_generation")).v

\* one session's file from the image stage into the video stage
VideoStartNext ==
    /\ \/ Tick
       \/ StartSession(TheSession)
       \/ \E m \in 0..StoreItems, fa, comp \in BOOLEAN :
             /\ PhaseOnFile(TheSession) = "image_generation"
             /\ SaveCheckpoint(TheSession, m, fa, comp)
       \/ SaveEnd
       \/ SaveCrash
       \/ StartVideoStage(TheSession)
    /\ UNCHANGED <<schedulerVars, pollVars, clientVars>>

SpecVideoStart == StoreInit1 /\ [][VideoStartNext]_vars

\* ----------------------------------------------------------- poll actions
\* the item call submits a task and enters the poll function fn
StartPoll(fn) ==
    /\ pollPc \in {"idle", "done"}
    /\ pfn' = fn
    /\ attempt' = 0
    /\ elapsed' = 0
    /\ queries' = 0
    /\ pollPc' = "polling"
    /\ pollResult' = NoOutcome
    /\ itemResult' = NoOutcome
    /\ cause' = "none"
    /\ lastAnswer' = NoAnswer
    /\ sawError' = FALSE
    /\ termSeen' = "none"
    /\ afterTerminal' = FALSE

\* one turn of the loop: the status query, its answer a, and either the end
\* of the poll or the sleep and the next attempt
PollQuery(a) ==
    LET o == OneQuery(pfn, a)
        t == TerminalStatus(pfn, a)
    IN  /\ pollPc = "polling"
        /\ LoopRuns(pfn, attempt, elapsed)
        /\ queries' = queries + 1
        /\ lastAnswer' = a
        /\ sawError' = (sawError \/ a.http # 200)
        /\ afterTerminal' = (afterTerminal \/ termSeen # "none")
        /\ termSeen' = IF termSeen = "none" THEN t ELSE termSeen
        /\ IF o.kind = "continue"
           THEN /\ attempt' = IF pfn = "status" THEN attempt ELSE attempt + 1
                /\ elapsed' = IF pfn = "status" THEN elapsed + PollSleep ELSE elapsed
                /\ UNCHANGED <<pollPc, pollResult, itemResult, cause>>
           ELSE /\ pollPc' = "done"
                /\ pollResult' = o
                /\ itemResult' = ItemCall(pfn, o)
                /\ cause' = IF t # "none" THEN t
                            ELSE IF a.http # 200 THEN "error" ELSE "query_error"
                /\ UNCHANGED <<attempt, elapsed>>
        /\ UNCHANGED pfn

\* the loop condition fails: the statements after the loop
PollTimeout ==
    /\ pollPc = "polling"
    /\ ~LoopRuns(pfn, attempt, elapsed)
    /\ pollPc' = "done"
    /\ pollResult' = OnTimeout(pfn)
    /\ itemResult' = ItemCall(pfn, OnTimeout(pfn))
    /\ cause' = "timeout"
    /\ UNCHANGED <<pfn, attempt, elapsed, queries, lastAnswer, sawError,
                   termSeen, afterTerminal>>

PollInit1 == SchedulerInit /\ N = 1 /\ StoreInit /\ PollInit /\ ClientIdle

PollNext ==
    /\ \/ \E fn \in PollFunctions : StartPoll(fn)
       \/ \E a \in Answers : PollQuery(a)
       \/ PollTimeout
    /\ UNCHANGED <<schedulerVars, storeVars, clientVars>>

SpecPoll == PollInit1 /\ [][PollNext]_vars

\* ------------------------------------------------------------ client actions
\* every other part of the service at rest
ServiceIdle == SchedulerInit /\ N = 1 /\ StoreInit /\ PollInit

\* _get_file_url(session, file_id) on the answer the service gives
GetFileUrlCall ==
    /\ ~fileUrl.called
    /\ fileUrl' = [called |-> TRUE, url |-> GetFileUrl(fileResponse)]
    /\ UNCHANGED fileResponse

FileInit ==
    /\ ServiceIdle
    /\ WorkflowIdle
    /\ SceneIdle
    /\ DownloadIdle
    /\ SessionIdle
    /\ ListIdle
    /\ PromptIdle
    /\ fileResponse \in FileResponses
    /\ fileUrl = NotCalled

FileNext ==
    /\ GetFileUrlCall
    /\ UNCHANGED <<schedulerVars, storeVars, pollVars, promptVars, listVars, sessionVars, downloadVars, sceneVars, workflowVars>>

SpecFile == FileInit /\ [][FileNext]_vars

\* a submission site builds its payload from the caller's prompt
Submit(site) ==
    /\ round = "none"
    /\ sent' = [site |-> site, prompt |-> PayloadPrompt(site, promptIn)]
    /\ firstSent' = sent'
    /\ round' = "first"
    /\ UNCHANGED promptIn

\* the same site is called once more with the same prompt
SubmitAgain ==
    /\ round = "first"
    /\ sent' = [site |-> sent.site, prompt |-> PayloadPrompt(sent.site, promptIn)]
    /\ round' = "same"
    /\ UNCHANGED <<promptIn, firstSent>>

\* the same site is called with the prompt it has sent
SubmitSent ==
    /\ round = "first"
    /\ sent' = [site |-> sent.site, prompt |-> PayloadPrompt(sent.site, sent.prompt)]
    /\ round' = "sent"
    /\ UNCHANGED <<promptIn, firstSent>>

PromptInit ==
    /\ ServiceIdle
    /\ WorkflowIdle
    /\ SceneIdle
    /\ DownloadIdle
    /\ SessionIdle
    /\ ListIdle
    /\ FileIdle
    /\ promptIn \in {PromptOf(n) : n \in 0..MaxPromptLen}
    /\ firstSent = NothingSent
    /\ sent = NothingSent
    /\ round = "none"

PromptNext ==
    /\ \/ \E site \in ImageSites \cup VideoSites : Submit(site)
       \/ SubmitAgain
       \/ SubmitSent
    /\ UNCHANGED <<schedulerVars, storeVars, pollVars, fileVars, listVars, sessionVars, downloadVars, sceneVars, workflowVars>>

SpecPrompt == PromptInit /\ [][PromptNext]_vars

\* ------------------------------------------------------------ list actions
\* a stage is called with n items and np prompts
StartList(fn, n, np) ==
    /\ listPc \in {"idle", "returned"}
    /\ fn \in ImageListStages => np = n
    /\ listFn' = fn
    /\ listN' = n
    /\ listPrompts' = np
    /\ listI' = 0
    /\ listTasks' = <<>>
    /\ listAcc' = <<>>
    /\ listOutcomes' = <<>>
    /\ listRet' = <<>>
    /\ listPc' = IF fn \in VideoListStages /\ n # np THEN "returned" ELSE "loop"

\* one turn of the for loop of a stage that handles an item in one go
LoopItem(o) ==
    /\ listPc = "loop"
    /\ listFn # "generate_videos_from_images_and_prompts"
    /\ listI < listN
    /\ listAcc' = AfterItem(listFn, listAcc, listI + 1, o)
    /\ listOutcomes' = Append(listOutcomes, o)
    /\ listI' = listI + 1
    /\ UNCHANGED <<listFn, listN, listPrompts, listPc, listTasks, listRet>>

\* generate_videos_from_images_and_prompts, first loop: submit item listI + 1
SubmitItem(ok) ==
    /\ listPc = "loop"
    /\ listFn = "generate_videos_from_images_and_prompts"
    /\ listI < listN
    /\ listTasks' = IF ok THEN Append(listTasks, listI + 1) ELSE listTasks
    /\ listOutcomes' = Append(listOutcomes, IF ok THEN "submitted" ELSE "submit_failed")
    /\ listI' = listI + 1
    /\ UNCHANGED <<listFn, listN, listPrompts, listPc, listAcc, listRet>>

\* the end of the for loop: return, or go on to the polling loop
LoopEnd ==
    /\ listPc = "loop"
    /\ listI = listN
    /\ IF listFn = "generate_videos_from_images_and_prompts" /\ listTasks # <<>>
       THEN /\ listPc' = "poll"
            /\ listI' = 0
            /\ UNCHANGED listRet
       ELSE /\ listPc' = "returned"
            /\ listRet' = listAcc
            /\ UNCHANGED listI
    /\ UNCHANGED <<listFn, listN, listPrompts, listTasks, listAcc, listOutcomes>>

\* generate_videos_from_images_and_prompts, second loop: poll and download
PollItem(o) ==
    /\ listPc = "poll"
    /\ listI < Len(listTasks)
    /\ o # "submit_failed"
    /\ listAcc' = AfterItem(listFn, listAcc, listTasks[listI + 1], o)
    /\ listOutcomes' = [listOutcomes EXCEPT ![listTasks[listI + 1]] = o]
    /\ listI' = listI + 1
    /\ UNCHANGED <<listFn, listN, listPrompts, listPc, listTasks, listRet>>

PollEnd ==
    /\ listPc = "poll"
    /\ listI = Len(listTasks)
    /\ listPc' = "returned"
    /\ listRet' = listAcc
    /\ UNCHANGED <<listFn, listN, listPrompts, listI, listTasks, listAcc, listOutcomes>>

ListInit == ServiceIdle /\ ClientIdle

ListNext ==
    /\ \/ \E fn \in VideoListStages \cup ImageListStages, n \in 0..MaxImages, np \in 0..MaxImages :
             StartList(fn, n, np)
       \/ \E o \in ItemOutcomes : LoopItem(o)
       \/ \E ok \in BOOLEAN : SubmitItem(ok)
       \/ LoopEnd
       \/ \E o \in ItemOutcomes : PollItem(o)
       \/ PollEnd
    /\ UNCHANGED <<schedulerVars, storeVars, pollVars, fileVars, promptVars, sessionVars, downloadVars, sceneVars, workflowVars>>

SpecList == ListInit /\ [][ListNext]_vars

\* ---------------------------------------------------------- session actions
\* the clock moves on within the second, or to the next second
WallTick ==
    /\ \/ wall.micro < MaxClock /\ wall' = [wall EXCEPT !.micro = wall.micro + 1]
       \/ wall.sec < MaxClock /\ wall' = [sec |-> wall.sec + 1, micro |-> 0]
    /\ UNCHANGED started

\* generate_images / create_videos_with_prompts is called with session_id None
StartWithoutSessionId ==
    /\ Len(started) < MaxRuns
    /\ started' = Append(started, [at |-> wall, session_id |-> CreateSessionId(wall)])
    /\ UNCHANGED wall

SessionInit == ServiceIdle /\ ClientIdle

SessionNext ==
    /\ \/ WallTick
       \/ StartWithoutSessionId
    /\ UNCHANGED <<schedulerVars, storeVars, pollVars, fileVars, promptVars, listVars, downloadVars, sceneVars, workflowVars>>

SpecSession == SessionInit /\ [][SessionNext]_vars

\* --------------------------------------------------------- download actions
\* the session and the index of the item the downloads belong to
DlSession == CreateSessionId([sec |-> 1, micro |-> 0])
DlIndex == 0

\* the remote task reported success: the item downloads its next URL
DownloadOne ==
    /\ dlPc = "downloading"
    /\ dlI < Len(dlAnswers)
    /\ LET answer == dlAnswers[dlI + 1]
           path == DownloadPath(dlFn, DlSession, DlIndex, dlI, Len(dlAnswers))
           got == DownloadResult(answer, path)
       IN /\ dlSaved' = IF got # EmptyString THEN Append(dlSaved, got) ELSE dlSaved
          /\ dlFilesWritten' = IF got # EmptyString
                               THEN dlFilesWritten \cup {[path |-> path, holds |-> answer.body]}
                               ELSE dlFilesWritten
    /\ dlI' = dlI + 1
    /\ UNCHANGED <<dlFn, dlAnswers, dlPc, dlItem, dlRun, dlRecorded>>

\* _generate_single_image / _create_single_video returns
ItemReturn ==
    /\ dlPc = "downloading"
    /\ dlI = Len(dlAnswers)
    /\ dlItem' = ItemResult(dlFn, dlSaved)
    /\ dlPc' = "returned"
    /\ UNCHANGED <<dlFn, dlAnswers, dlI, dlSaved, dlFilesWritten, dlRun, dlRecorded>>

\* generate_single_image / create_single_video raise RuntimeError on an empty
\* result, which ends the run; otherwise the batch loop records the result
BatchHandlesItem ==
    /\ dlPc = "returned"
    /\ IF dlItem = EmptyString
       THEN dlRun' = "raised" /\ dlRecorded' = dlRecorded
       ELSE dlRun' = "saved" /\ dlRecorded' = <<dlItem>>
    /\ dlPc' = "done"
    /\ UNCHANGED <<dlFn, dlAnswers, dlI, dlSaved, dlFilesWritten, dlItem>>

DownloadInit ==
    /\ ServiceIdle
    /\ WorkflowIdle
    /\ SceneIdle
    /\ FileIdle /\ PromptIdle /\ ListIdle /\ SessionIdle
    /\ dlFn \in ItemFunctions
    /\ dlAnswers \in UNION {[1..n -> DownloadAnswers] :
                               n \in 1..(IF dlFn = "_create_single_video" THEN 1 ELSE MaxUrls)}
    /\ dlPc = "downloading"
    /\ dlI = 0
    /\ dlSaved = <<>>
    /\ dlFilesWritten = {}
    /\ dlItem = EmptyString
    /\ dlRun = ""
    /\ dlRecorded = <<>>

DownloadNext ==
    /\ \/ DownloadOne
       \/ ItemReturn
       \/ BatchHandlesItem
    /\ UNCHANGED <<schedulerVars, storeVars, pollVars, fileVars, promptVars, listVars, sessionVars, sceneVars, workflowVars>>

SpecDownload == DownloadInit /\ [][DownloadNext]_vars

\* ------------------------------------------------------------ scene actions
\* POST generate-images: one image_info per scene prompt
GenerateSceneImages(statuses) ==
    /\ sceneImages' = [i \in 1..sceneCount |-> SceneInfo(i, statuses[i], "generated")]
    /\ UNCHANGED <<sceneCount, videoPrompts, handed>>

\* POST regenerate-image: the image_info of the scene is replaced
RegenerateSceneImage(n, status) ==
    /\ sceneImages # <<>>
    /\ \E i \in 1..Len(sceneImages) : sceneImages[i].scene_number = n
    /\ LET i == CHOOSE j \in 1..Len(sceneImages) :
                   /\ sceneImages[j].scene_number = n
                   /\ \A m \in 1..(j - 1) : sceneImages[m].scene_number # n
       IN  sceneImages' = [sceneImages EXCEPT ![i] = SceneInfo(n, status, "regenerated")]
    /\ UNCHANGED <<sceneCount, videoPrompts, handed>>

\* POST generate-video-prompts
GenerateSceneVideoPrompts ==
    /\ sceneImages # <<>>
    /\ videoPrompts' = VideoPromptsFromScenes(sceneImages)
    /\ UNCHANGED <<sceneCount, sceneImages, handed>>

\* POST generate-videos up to the call of generate_videos_from_images_and_prompts
GenerateSceneVideos ==
    /\ sceneImages # <<>>
    /\ videoPrompts # <<>>
    /\ SuccessfulImages(sceneImages) # <<>>
    /\ handed' = [called |-> TRUE,
                  images |-> SuccessfulImages(sceneImages),
                  prompts |-> FilteredVideoPrompts(sceneImages, videoPrompts)]
    /\ UNCHANGED <<sceneCount, sceneImages, videoPrompts>>

SceneInit ==
    /\ ServiceIdle
    /\ WorkflowIdle
    /\ FileIdle /\ PromptIdle /\ ListIdle /\ SessionIdle /\ DownloadIdle
    /\ sceneCount \in 1..MaxImages
    /\ sceneImages = <<>>
    /\ videoPrompts = <<>>
    /\ handed = NothingHanded

SceneNext ==
    /\ \/ \E statuses \in [1..sceneCount -> {"success", "failed"}] :
             GenerateSceneImages(statuses)
       \/ \E n \in 1..sceneCount, status \in SceneStatuses : RegenerateSceneImage(n, status)
       \/ GenerateSceneVideoPrompts
       \/ GenerateSceneVideos
    /\ UNCHANGED <<schedulerVars, storeVars, pollVars, fileVars, promptVars, listVars, sessionVars, downloadVars, workflowVars>>

SpecScene == SceneInit /\ [][SceneNext]_vars

\* --------------------------------------------------------- workflow actions
\* POST /api/projects/{project_id}/execute-step/{step}
ExecuteWorkflowStep(step, o) ==
    /\ IF step > 1 /\ PreviousDataRaises(project)
       THEN /\ stepReply' = [called |-> TRUE, before |-> succeeded,
                             answer |-> StepAnswer("http_500", step, FALSE, NoData)]
            /\ UNCHANGED <<project, succeeded>>
       ELSE LET prev == IF step > 1 THEN PreviousData(project) ELSE [none |-> TRUE]
                answer == ExecuteStepByStep(step, prev, o, project.num_steps)
            IN  /\ stepReply' = [called |-> TRUE, before |-> succeeded, answer |-> answer]
                /\ IF answer.status = "success"
                   THEN /\ project' = UpdateProject(project, step, answer.data)
                        /\ succeeded' = succeeded \cup {step}
                   ELSE UNCHANGED <<project, succeeded>>
    /\ UNCHANGED <<wfNumSteps, wfResult, wfPc, wfOutcomes>>

StepsInit == ServiceIdle /\ ClientIdle

StepsNext ==
    /\ \E step \in 0..5, o \in StepOutcomes : ExecuteWorkflowStep(step, o)
    /\ UNCHANGED <<schedulerVars, storeVars, pollVars, fileVars, promptVars, listVars, sessionVars, downloadVars, sceneVars>>

SpecSteps == StepsInit /\ [][StepsNext]_vars

\* execute_complete_workflow is called
StartCompleteWorkflow ==
    /\ wfPc \in {"idle", "returned"}
    /\ wfPc' = "running"
    /\ wfNumSteps' \in 1..MaxImages
    /\ wfResult' = InitialResult
    /\ wfOutcomes' = <<>>
    /\ UNCHANGED <<project, stepReply, succeeded>>

\* the next step of the workflow: its service call, then the result dict is
\* filled in, or the except handler returns it
WorkflowStep(o) ==
    LET k == wfResult.step
        v == StepValue(wfResult, k, o, wfNumSteps)
    IN  /\ wfPc = "running"
        /\ wfOutcomes' = Append(wfOutcomes, [step |-> k, value |-> v])
        /\ IF StepRaises(k, v)
           THEN /\ wfResult' = AfterException(wfResult, k, v)
                /\ wfPc' = "returned"
           ELSE /\ wfResult' = AfterStep(wfResult, k, v)
                /\ wfPc' = IF k = 4 THEN "returned" ELSE "running"
        /\ UNCHANGED <<project, stepReply, succeeded, wfNumSteps>>

WorkflowNext ==
    /\ \/ StartCompleteWorkflow
       \/ \E o \in StepOutcomes : WorkflowStep(o)
    /\ UNCHANGED <<schedulerVars, storeVars, pollVars, fileVars, promptVars, listVars, sessionVars, downloadVars, sceneVars>>

SpecWorkflow == StepsInit /\ [][WorkflowNext]_vars

\* ----------------------------------------------------------- properties
\* the list one uninterrupted call over n items returns
UninterruptedResult(st, n) == [i \in 1..n |-> [kind |-> st, idx |-> i - 1, item |-> i - 1]]

Prefix(m) == [i \in 1..m |-> i - 1]

\* index of the batch of the current call that holds item j
BatchOf(j) == (j - k0) \div BatchSize(stage)

\* C1: a call made with the session id of a run that was interrupted after
\* items 0..k-1 were committed hands only items k..N-1 to the remote API and
\* returns, position by position, the list of one uninterrupted run over all
\* N items (an uninterrupted first call is the case k = 0)
C1_ResumeProcessesOnlyTheRest ==
    /\ \A j \in submitted : k0 <= j /\ j < N
    /\ pc = "returned" =>
          /\ ret = UninterruptedResult(stage, N)
          /\ worked => submitted = {j \in 0..(N - 1) : j >= k0}
          /\ ~worked => submitted = {} /\ k0 >= N

C1_Witness ==
    /\ pc = "returned"
    /\ runs >= 2
    /\ worked
    /\ 0 < k0 /\ k0 < N
    /\ Cardinality(submitted) = N - k0

\* C2: once an item k of a call has failed, the call has raised, the
\* checkpoint on disk holds exactly the items of the batches before k's
\* batch, nothing of k's batch or beyond is committed and no item of a later
\* batch has been submitted
C2_StopOnFirstFailure ==
    failed # -1 =>
        LET first == k0 + BatchOf(failed) * BatchSize(stage)
        IN  /\ pc = "raised"
            /\ CompletedOf(stage, disk) = Prefix(first)
            /\ \A j \in Range(CompletedOf(stage, disk)) : j < first
            /\ \A j \in submitted : j < first + BatchSize(stage)

C2_Witness ==
    /\ pc = "raised"
    /\ failed >= VideoBatchSize
    /\ batch_start > 0
    /\ Len(CompletedOf(stage, disk)) = start_index + batch_start
    /\ failed + 1 < N

\* C3: when an item of a batch raises, the checkpoint written before the
\* call re-raises carries failed_at with the zero-based index of that item
C3_FailedAtRecorded ==
    pc = "raised" => disk.failed_at = failed

\* C4: whatever the order in which the coroutines of a batch end, every
\* checkpoint on disk and the returned list hold the artifact of item i,
\* named by index i, at position i
C4_IndexFidelity ==
    /\ \A st \in {"image", "video"} :
          \A p \in 1..Len(ResultsOf(st, disk)) :
              ResultsOf(st, disk)[p] = [kind |-> st, idx |-> p - 1, item |-> p - 1]
    /\ pc = "returned" =>
          \A p \in 1..Len(ret) : ret[p] = [kind |-> stage, idx |-> p - 1, item |-> p - 1]

C4_Witness ==
    /\ pc = "commit"
    /\ ci = Len(batch_results)
    /\ Len(doneOrder) >= 2
    /\ doneOrder[1] > doneOrder[2]
    /\ Len(ResultsOf(stage, disk)) = start_index + batch_start + Len(batch_results)

\* C5: in every saved checkpoint, over runs, failures, crashes and resumes,
\* there are as many completed indices as stored results, and the completed
\* indices are the gap-free prefix 0..m-1 of range(N)
C5_CompletedIsPrefix ==
    disk.exists =>
        \A st \in {"image", "video"} :
            /\ Len(CompletedOf(st, disk)) = Len(ResultsOf(st, disk))
            /\ Len(CompletedOf(st, disk)) <= N
            /\ CompletedOf(st, disk) = Prefix(Len(CompletedOf(st, disk)))

C5_Witness ==
    /\ runs >= 2
    /\ k0 > 0
    /\ pc = "commit"
    /\ ci > 0
    /\ Len(CompletedOf(stage, disk)) = k0 + batch_start + ci

\* C6: when an item fails while siblings of its batch are in flight, the
\* siblings have ended and the paths of those that succeeded are in the
\* checkpoint by the time the call raises
C6_SiblingResultsRecorded ==
    pc = "raised" =>
        \A i \in 1..Len(tasks) :
            /\ tasks[i].st # "running"
            /\ tasks[i].st = "ok" =>
                  \E p \in 1..Len(ResultsOf(stage, disk)) :
                      ResultsOf(stage, disk)[p].item = tasks[i].item

\* C7: a saved checkpoint shows completed = true only when every item of the
\* stage its phase names has succeeded
C7_CompletedOnlyWhenAllDone ==
    (disk.exists /\ disk.completed) =>
        /\ disk.phase = "image_generation" => Len(disk.completed_images) = N
        /\ disk.phase = "video_generation" => Len(disk.completed_videos) = N

\* C8: a call whose items all succeed returns one non-empty result per input
\* item, in input order, and the last checkpoint it wrote has completed =
\* true with all N indices; a call that returns has skipped no item
C8_FullCompletion ==
    pc = "returned" =>
        /\ Len(ret) = N
        /\ \A p \in 1..N : ret[p] # NoPath /\ ret[p].kind = stage /\ ret[p].item = p - 1
        /\ worked =>
              /\ disk.completed
              /\ CompletedOf(stage, disk) = Prefix(N)
              /\ ResultsOf(stage, disk) = ret

C8_Witness ==
    /\ pc = "returned"
    /\ worked
    /\ k0 = 0
    /\ N >= 3
    /\ disk.completed
    /\ Len(ret) = N

\* C9: an item failure leaves the call as one raised error that names the
\* failed item by its 1-based position; it is not swallowed and no list is
\* returned
C9_ErrorNamesOneBasedItem ==
    /\ failed # -1 => pc = "raised" /\ ret = <<>>
    /\ pc = "raised" => failed # -1 /\ err = failed + 1

C9_Witness ==
    /\ pc = "raised"
    /\ failed = 2
    /\ err = 3

\* C10: within one call, an item of a batch is submitted only after every
\* item of the batches before it has ended and has been committed
C10_BatchesAreSequential ==
    \A t \in submitted :
        \A j \in 0..(N - 1) :
            (j >= k0 /\ BatchOf(j) < BatchOf(t)) =>
                /\ j \in resolved
                /\ j < Len(CompletedOf(stage, disk))

C10_Witness ==
    /\ pc = "gather"
    /\ batch_start > 0
    /\ \E t \in submitted : BatchOf(t) = 1

LastUpdateOf(x) == IF x.last_update.t = "none" THEN 0 ELSE x.last_update.v

\* C12: a checkpoint file that a save has written loads as a dict equal to the
\* saved dict in every field, failed_at and the order of the completed
\* indices included, and a later save of the same session replaces the
\* earlier one
C12_LoadReturnsWhatWasSaved ==
    /\ \A s \in Sessions :
          files[s].st = "ok" => LoadCheckpointFile(files[s]) = lastSaved[s]
    /\ reply.op = "saved" => LoadCheckpointFile(files[reply.sid]) = reply.data

C12_Witness ==
    /\ reply.op = "saved"
    /\ reply.old.st = "ok"
    /\ LoadCheckpointFile(reply.old) # reply.data
    /\ "failed_at" \in DOMAIN reply.data
    /\ Len(reply.data.completed_images.v) >= 1
    /\ LoadCheckpointFile(files[reply.sid]) = reply.data

\* C13: when the checkpoint file of a session is missing or cannot be parsed,
\* the load returns the empty dict without raising, and a run on that session
\* starts at index 0 with a fresh checkpoint that it saves
C13_MissingOrCorruptStartsFresh ==
    /\ reply.op = "load" /\ reply.old.st # "ok" => reply.data = EmptyDict
    /\ reply.op = "start" /\ reply.old.st # "ok" =>
          /\ reply.data = EmptyDict
          /\ reply.idx = 0
          /\ saving.sid = reply.sid
          /\ saving.data = FreshDict(reply.sid, now)
          /\ saving.data.completed_images.v = <<>>

C13_Witness ==
    /\ reply.op = "start"
    /\ reply.old.st = "corrupt"
    /\ reply.idx = 0
    /\ saving.data = FreshDict(reply.sid, now)

\* C14: after a crash during a save over a good checkpoint, the session's file
\* loads as the checkpoint it held before the save or as the one being saved
C14_CrashKeepsACheckpoint ==
    reply.op = "crash" /\ reply.old.st = "ok" =>
        LoadCheckpointFile(files[reply.sid]) \in
            {LoadCheckpointFile(reply.old), reply.data}

\* C15: the list a listing returns is in newest-first order of last_update,
\* summaries without last_update included
C15_ListNewestFirst ==
    reply.op = "list" =>
        \A i, j \in 1..Len(reply.listed) :
            i < j => LastUpdateOf(reply.listed[i]) >= LastUpdateOf(reply.listed[j])

\* C16: a checkpoint file goes away only in clear_checkpoint of its session or
\* in clear_all_checkpoints; clear_checkpoint(s) removes the file of s and
\* leaves every other file as it was; after clear_all_checkpoints a listing
\* has no entry; the save that ends a successful run leaves the file in place
C16_OnlyClearDeletes ==
    [][/\ \A s \in Sessions :
             files[s].st # "absent" /\ files'[s].st = "absent" =>
                 \/ reply'.op = "clear_all"
                 \/ reply'.op = "clear" /\ reply'.sid = s
       /\ reply'.op = "clear" =>
             /\ files'[reply'.sid].st = "absent"
             /\ \A s \in Sessions \ {reply'.sid} : files'[s] = files[s]
       /\ reply'.op = "clear_all" => ListCheckpoints(files') = {<<>>}
       /\ reply'.op = "saved" /\ "completed" \in DOMAIN reply'.data =>
             files'[reply'.sid].st = "ok"]_vars

C16_Witness ==
    /\ reply.op = "clear"
    /\ reply.old.st = "ok"
    /\ files[reply.sid].st = "absent"
    /\ \E s \in Sessions \ {reply.sid} :
          files[s].st = "ok" /\ "completed" \in DOMAIN lastSaved[s]

\* ---------------------------------------------------------------- polling
\* max_attempts of the two counting polls
MaxQueries(fn) == IF fn = "video" THEN VideoMaxAttempts ELSE ImageMaxAttempts

\* C17 as stated: once a status query has reported a failed status, the poll
\* has ended with a raised error and has sent no further status query
C17_FailedStatusRaisesAtOnce ==
    termSeen = "failed" =>
        /\ pollPc = "done"
        /\ pollResult.kind = "raise"
        /\ ~afterTerminal

\* C17 amended: once a status query has reported a status of the poll's failed
\* list, the poll has ended at that query with its failure result (a raised
\* RuntimeError in _wait_for_video_task and _wait_for_image_task, the return
\* value None in _poll_task_status) and has sent no further status query
C17_FailedStatusEndsPollAtOnce ==
    termSeen = "failed" =>
        /\ pollPc = "done"
        /\ cause = "failed"
        /\ TerminalStatus(pfn, lastAnswer) = "failed"
        /\ ~afterTerminal
        /\ pfn \in {"video", "image"} =>
              pollResult.kind = "raise" /\ pollResult.exc = "RuntimeError"
        /\ pfn = "status" => pollResult = Returned("None")

C17_Witness ==
    /\ termSeen = "failed"
    /\ pollPc = "done"
    /\ queries > 1
    /\ pfn = "video"
    /\ pollResult.kind = "raise"

\* C18: a network error or a non-200 answer to a status query leaves the poll
\* running (it ends only when the loop condition fails), and a poll that has
\* met such answers still returns the artifact when a later query reports
\* success with it
C18_ErrorsDoNotAbort ==
    /\ lastAnswer.http \in {0, 500} => pollPc = "polling" \/ cause = "timeout"
    /\ /\ sawError
       /\ TerminalStatus(pfn, lastAnswer) = "success"
       /\ lastAnswer.payload
       => /\ pollPc = "done"
          /\ pollResult.kind = "return"
          /\ pollResult.value \in {"file_id", "saved_paths", "result"}

C18_Witness ==
    /\ sawError
    /\ pfn = "video"
    /\ pollPc = "done"
    /\ TerminalStatus(pfn, lastAnswer) = "success"
    /\ pollResult = Returned("file_id")

\* C19: when the poll ends because the waiting time is over, the caller of the
\* item call gets a result that differs from the one it gets for a task the
\* service reported as failed
C19_TimeoutDistinctFromFailure ==
    pollPc = "done" /\ cause = "timeout" /\ pfn \in {"video", "status"} =>
        itemResult # ItemCall(pfn, OnFailed(pfn))

\* C20: a poll sends at most max_attempts status queries (1200 video, 120
\* image), ends with a return or a raise, and sends no status query after a
\* query has reported a terminal status (success or failed)
C20_PollTerminates ==
    /\ pfn \in {"video", "image"} => queries <= MaxQueries(pfn)
    /\ pollPc = "done" => pollResult.kind \in {"return", "raise"}
    /\ ~afterTerminal

\* a status value in lower case
LowerCase(st) ==
    CASE st \in {"processing", "Processing"} -> "processing"
      [] st \in {"success", "Success"} -> "success"
      [] st \in {"failed", "Failed"} -> "failed"
      [] st = "Fail" -> "fail"
      [] OTHER -> st

\* answers that report the same status as a: in another of the three places,
\* or in another letter case
SameStatusAs(a) ==
    {b \in Answers :
        /\ b.http = a.http /\ b.base = a.base /\ b.payload = a.payload
        /\ (b.where = "none") = (a.where = "none")
        /\ LowerCase(b.status) = LowerCase(a.status)}

\* C21: the poll reads the status from the top-level status, from data.status
\* and from task_status alike, and two answers whose statuses differ only in
\* letter case give the same result of the loop turn
C21_StatusNormalised ==
    pfn \in {"video", "image"} /\ queries > 0 =>
        \A b \in SameStatusAs(lastAnswer) :
            OneQuery(pfn, b) = OneQuery(pfn, lastAnswer)

\* ------------------------------------------------------------ media client
\* the search path of index i resolves to a string that starts with http
PathMatches(doc, i) ==
    LET current == Walk(doc, SearchPaths[i], 1)
    IN  current.t = "str" /\ StartsWith(current.v, HttpPrefix)

\* C22: _get_file_url returns the value at the first search path, in list
\* order, that resolves to a string starting with http, and the empty string
\* when no path does, when base_resp.status_code is not 0 and when the HTTP
\* status is not 200
C22_FirstMatchingPath ==
    fileUrl.called =>
        LET r == fileResponse
            hits == {i \in 1..Len(SearchPaths) : PathMatches(r.doc, i)}
        IN  IF r.status # 200 \/ r.base # 0 \/ ~r.json \/ hits = {}
            THEN fileUrl.url = EmptyString
            ELSE \E i \in hits :
                    /\ \A j \in hits : i <= j
                    /\ fileUrl.url = r.doc[SearchPaths[i]].v

C22_Witness ==
    /\ fileUrl.called
    /\ fileResponse.status = 200 /\ fileResponse.base = 0
    /\ Cardinality({i \in 1..Len(SearchPaths) : PathMatches(fileResponse.doc, i)}) = 2
    /\ \E p \in DOMAIN fileResponse.doc : fileResponse.doc[p].v # fileUrl.url
    /\ fileUrl.url # EmptyString

\* C23: the prompt of every image-generation submission has at most 1500
\* characters, whatever the length of the caller's prompt
C23_ImagePromptWithinLimit ==
    sent.site \in ImageSites => Len(sent.prompt) <= ImagePromptLimit

\* C24: the prompt of every video-generation submission has at most 200
\* characters, a longer motion prompt being cut to its first 200
C24_VideoPromptWithinLimit ==
    sent.site \in VideoSites =>
        /\ Len(sent.prompt) <= VideoPromptLimit
        /\ Len(promptIn) > VideoPromptLimit =>
              sent.prompt = SubSeq(promptIn, 1, VideoPromptLimit)

\* C25: through _generate_single_image and through _create_single_video the
\* same prompt gives the same submitted string both times, within the limit
\* of the endpoint, and a video prompt that was already cut is sent unchanged
C25_EncodingDeterministicAndBounded ==
    /\ sent.site = "_generate_single_image" =>
          /\ Len(sent.prompt) <= ImagePromptLimit
          /\ round = "same" => sent = firstSent
    /\ sent.site = "_create_single_video" =>
          /\ Len(sent.prompt) <= VideoPromptLimit
          /\ round \in {"same", "sent"} => sent = firstSent

C25_Witness ==
    /\ sent.site = "_create_single_video"
    /\ round = "sent"
    /\ Len(promptIn) > VideoPromptLimit
    /\ Len(sent.prompt) = VideoPromptLimit
    /\ sent = firstSent

\* ------------------------------------------------------------ result lists
\* the returned list has one entry per item, entry i holds the artifact of
\* item i when the item went well and an empty path when it did not
ListAligned ==
    /\ Len(listRet) = listN
    /\ \A i \in 1..Len(listRet) :
          listRet[i].filepath =
              IF listOutcomes[i] = "ok" THEN ArtifactOf(listFn, i) ELSE EmptyString

\* C26: the video stage returns a list as long as the input image list, entry
\* i being the video of image i, or the empty string when its generation did
\* not succeed
C26_VideoListAligned ==
    /\ listPc = "returned"
    /\ listFn \in VideoListStages
    /\ listPrompts = listN
    => ListAligned

\* C27: a failure-tolerant image stage puts an empty placeholder at the place
\* of an item whose remote call failed and goes on, so the returned list has
\* one entry per prompt and entry i belongs to prompt i
C27_ImageListAligned ==
    listPc = "returned" /\ listFn \in ImageListStages => ListAligned

\* -------------------------------------------------------------- session ids
\* C28: two runs started without session_id, at the same moment or not, have
\* different session ids, hence different checkpoint files and no image or
\* video path in common
C28_SessionIdsUnique ==
    \A i, j \in 1..Len(started) :
        i # j =>
            /\ started[i].session_id # started[j].session_id
            /\ CheckpointFileName(started[i].session_id) #
                  CheckpointFileName(started[j].session_id)
            /\ \A k \in 0..MaxImages :
                  /\ SessionImagePath(started[i].session_id, k) #
                        SessionImagePath(started[j].session_id, k)
                  /\ SessionVideoPath(started[i].session_id, k) #
                        SessionVideoPath(started[j].session_id, k)

\* ---------------------------------------------------------------- downloads
\* a download that answered a status other than 200, or 200 with an empty body
FailedDownload(answer) ==
    ~answer.raised /\ (answer.status # 200 \/ answer.body = "empty")

\* C29: when a download of an item answers non-200 or an empty body, the item
\* fails although the task succeeded: the run raises and the checkpoint
\* records no path for the item
C29_FailedDownloadFailsItem ==
    (dlPc = "done" /\ \E i \in 1..Len(dlAnswers) : FailedDownload(dlAnswers[i]))
        => (dlRun = "raised" /\ dlRecorded = <<>>)

\* ------------------------------------------------------- failure is terminal
\* the phase of the checkpoint file only stays or moves image -> video
PhaseMovesForward(old, new) ==
    /\ old = "video_generation" => new = "video_generation"
    /\ old = "image_generation" => new \in {"image_generation", "video_generation"}

\* C30: once an item of a call has failed, that call hands nothing more to
\* the remote API (neither the failed item again nor an item of a later
\* batch) and writes nothing; work goes on only with a new call on the
\* session id; and the phase of the checkpoint never moves back from
\* video_generation to image_generation
C30_FailureIsTerminal ==
    [][/\ (failed # -1 /\ runs' = runs) =>
              /\ submitted' = submitted
              /\ disk' = disk
              /\ pc' = "raised"
       /\ PhaseMovesForward(disk.phase, disk'.phase)]_vars

C30_Witness ==
    /\ pc = "raised"
    /\ failed # -1
    /\ runs >= 2
    /\ stage = "video"
    /\ disk.phase = "video_generation"
    /\ Len(disk.completed_images) > 0
    /\ \E j \in 0..(N - 1) : j > failed /\ j \notin submitted

\* ------------------------------------------------------ bounded concurrency
\* the coroutines of the call's current gather that have not ended
InFlight == {i \in 1..Len(tasks) : tasks[i].st = "running"}

\* C31: within one call, at most batch-size item coroutines are in flight at
\* any moment: 4 for generate_images, 2 for create_videos_with_prompts
C31_InFlightWithinBatchSize ==
    /\ Len(tasks) <= BatchSize(stage)
    /\ Cardinality(InFlight) <= BatchSize(stage)

C31_Witness ==
    /\ pc = "gather"
    /\ stage = "image"
    /\ N > ImageBatchSize
    /\ batch_start = 0
    /\ Cardinality(InFlight) = ImageBatchSize

\* ------------------------------------------------------ idempotent re-invoke
\* C32: a call of a stage whose checkpoint already holds all N items returns
\* at once the stored list, hands nothing to the remote API and leaves the
\* stored results as they were; calling again returns the same list
C32_ReinvokeReturnsStored ==
    [][(runs' = runs + 1 /\ Len(CompletedOf(stage', disk)) >= N) =>
          /\ pc' = "returned"
          /\ submitted' = {}
          /\ tasks' = <<>>
          /\ ret' = ResultsOf(stage', disk)
          /\ ResultsOf(stage', disk') = ResultsOf(stage', disk)
          /\ CompletedOf(stage', disk') = CompletedOf(stage', disk)
          /\ (pc = "returned" /\ stage = stage') => ret' = ret]_vars

C32_Witness ==
    /\ pc = "returned"
    /\ ~worked
    /\ runs >= 3
    /\ stage = "video"
    /\ k0 = N
    /\ N >= 3
    /\ Len(ret) = N
    /\ ret = disk.video_paths

\* ------------------------------------------------- one task per item index
\* C35: no coroutine left behind by a call that raised is still running for
\* an item index while a later call on the session runs a coroutine of the
\* same stage for the same index
C35_OneTaskPerIndex ==
    \A o \in orphans :
        \A i \in InFlight :
            ~(pc = "gather" /\ o.kind = stage /\ o.item = tasks[i].item)

\* --------------------------------------------------- entering the video stage
\* the keys of the image stage the video stage has to leave alone
ImageStageKeys == {"completed_images", "generated_images", "session_id", "start_time"}

\* C34: the checkpoint the video stage saves when the session has a
\* checkpoint of the image stage shows phase video_generation, carries
\* completed_images, generated_images, session_id and start_time as they
\* were, and has no video progress yet
C34_VideoStartKeepsImageProgress ==
    (reply.op = "start_video" /\ saving # NoSave /\ "session_id" \in DOMAIN reply.data
        /\ reply.data["phase"] = PyStr("image_generation")) =>
        /\ saving.data["phase"] = PyStr("video_generation")
        /\ \A k \in ImageStageKeys :
              /\ k \in DOMAIN saving.data
              /\ saving.data[k] = reply.data[k]
        /\ Get(saving.data, "completed_videos", PyList(<<>>)).v = <<>>
        /\ Get(saving.data, "video_paths", PyList(<<>>)).v = <<>>
        /\ reply.idx = 0

C34_Witness ==
    /\ reply.op = "start_video"
    /\ saving # NoSave
    /\ "session_id" \in DOMAIN reply.data
    /\ reply.data["phase"] = PyStr("image_generation")
    /\ reply.data["completed_images"].v = Indices(StoreItems)
    /\ saving.data["start_time"].v < now

\* ------------------------------------------------------------ scene workflow
\* C33: whatever the order of generate-images, regenerate-image,
\* generate-video-prompts and generate-videos, the two lists handed to
\* generate_videos_from_images_and_prompts have the same length and pair the
\* image of scene i with the video prompt of scene i
C33_ImagesPairedWithPrompts ==
    handed.called =>
        /\ Len(handed.images) = Len(handed.prompts)
        /\ \A p \in 1..Len(handed.images) :
              p <= Len(handed.prompts) =>
                  handed.prompts[p] = SceneVideoPrompt(handed.images[p].scene_number)

\* ------------------------------------------------------- 4-step workflow
\* C36: a step 2..4 answers success only when the step before it has
\* answered success earlier for the project; asked out of order it answers
\* error and makes no remote call; a step number outside 1..4 answers error
C36_StepsInOrder ==
    stepReply.called =>
        LET a == stepReply.answer
        IN  /\ (a.step \in 2..4 /\ a.status = "success") => (a.step - 1) \in stepReply.before
            /\ (a.step \in 2..4 /\ (a.step - 1) \notin stepReply.before) =>
                  (a.status = "error" /\ ~a.remote)
            /\ a.step \notin 1..4 => a.status = "error"

\* step k of the complete workflow gave a usable result
StepGood(x) ==
    /\ ~x.value.raised
    /\ x.step \in {1, 2} => x.value.list # <<>>
    /\ x.step = 4 => x.value.path # EmptyString

\* C37: execute_complete_workflow returns completed exactly when its four
\* steps succeeded (step 5, final_video_path set, error None), and failed
\* otherwise, with an error, step naming the step that failed, the results of
\* the steps before it kept and no step run after it; it never returns
\* processing
C37_WorkflowOutcome ==
    /\ \A i \in 1..Len(wfOutcomes) :
          /\ wfOutcomes[i].step = i
          /\ i < Len(wfOutcomes) => StepGood(wfOutcomes[i])
    /\ wfPc = "returned" =>
          LET allGood == Len(wfOutcomes) = 4 /\ \A i \in 1..4 : StepGood(wfOutcomes[i])
              last == Len(wfOutcomes)
          IN  /\ wfResult.status \in {"completed", "failed"}
              /\ wfResult.status = "completed" <=> allGood
              /\ wfResult.status = "completed" =>
                    /\ wfResult.step = 5
                    /\ wfResult.final_video_path # EmptyString
                    /\ wfResult.error = "None"
              /\ wfResult.status = "failed" =>
                    /\ wfResult.error # "None"
                    /\ wfResult.step = last
                    /\ ~StepGood(wfOutcomes[last])
                    /\ wfResult.final_video_path = EmptyString
                    /\ last > 1 => wfResult.step_prompts = wfOutcomes[1].value.list
                    /\ last > 2 => wfResult.generated_images = wfOutcomes[2].value.list
                    /\ last > 3 =>
                          /\ wfResult.selected_image_index = wfOutcomes[3].value.idx
                          /\ wfResult.video_prompt = wfOutcomes[3].value.prompt

C37_Witness ==
    /\ wfPc = "returned"
    /\ wfResult.status = "failed"
    /\ wfResult.step = 4
    /\ Len(wfResult.generated_images) >= 2
    /\ wfResult.selected_image_index = 1
    /\ wfResult.video_prompt = MotionPrompt

====
